---- MODULE Spec2Model ----
(***************************************************************************)
(* memglass: shared-memory observation runtime.                            *)
(*                                                                         *)
(* The module holds several specifications over one set of variables:      *)
(*   SpecSeq   - Guarded<T> (seqlock), one writer and several readers      *)
(*   SpecProxyWrite - Guarded<T> written by the producer and, through a    *)
(*               FieldProxy, by the observer                               *)
(*   SpecLock  - Locked<T> (spin lock), several threads                    *)
(*   SpecField - a scalar field written by the producer and read through   *)
(*               an ObjectView's FieldProxy                                *)
(*   SpecProducer - producer session (registry, region allocator, object   *)
(*               directory), every producer call                           *)
(*   SpecAlloc - a session whose program only calls allocate               *)
(*   SpecLife  - sessions started and shut down, and one observer          *)
(*   SpecObserver - an observer facing a session or a foreign segment      *)
(*   SpecLookup - field lookups in an ObjectView and its FieldProxies       *)
(*   SpecHandles - SharedMemory handles created, opened, moved and closed  *)
(*   SpecRegistry - the type registry under register_type calls            *)
(*   SpecVarint - memglass-diff: varints written and read back             *)
(*   SpecDiff  - memglass-diff: compute_diff of two snapshots              *)
(*   SpecCodec - memglass-diff: binary diff files written and decoded      *)
(*   SpecSeqFair, SpecLockFair - SpecSeq and SpecLock with every thread    *)
(*               that is inside a call running                             *)
(*   SpecView  - an observer that keeps an ObjectView across refreshes     *)
(*   Spec      - a producer session using one type, and one observer       *)
(* Each specification starts the other parts idle and leaves them alone.   *)
(***************************************************************************)
EXTENDS Integers, Sequences, FiniteSets, TLC

(***************************************************************************)
(* Bounds of the model                                                     *)
(***************************************************************************)
\* calls of Guarded::write made by the single writer
MaxWrites == 2
\* reader threads of a Guarded value
NReaders == 1
\* threads using one Locked value
NThreads == 2
\* calls made on the Locked value, all threads together
MaxCalls == 3
\* producer stores to one field of the object
MaxStores == 2

VARIABLES
    \* ---- Guarded<T> ----
    seq_,        \* Guarded::seq_ as visible in memory
    value_,      \* Guarded::value_ as visible in memory, word by word
    w_pc,        \* writer: "idle" | "stores"
    w_s,         \* writer: local s of write()
    w_v,         \* writer: argument v of write()
    w_pending,   \* writer: stores issued by write() and not yet visible:
                 \* "seq" is the store of s+1 to seq_, the others the words
    written,     \* history: the values passed to write(), in order
    r_pc,        \* reader -> "idle" | "load1" | "copy" | "load2" | "done"
    r_kind,      \* reader -> "read" | "try_read"
    r_s1,        \* reader -> local s1
    r_s2,        \* reader -> local s2 (indeterminate until first assigned)
    r_left,      \* reader -> words of value_ not yet copied by memcpy
    r_result,    \* reader -> local result being filled
    r_out,       \* reader -> what the call returned (Nullopt or a value)
    \* ---- Locked<T> ----
    lock_,       \* Locked::lock_ (atomic_flag)
    value,       \* Locked::value, word by word
    t_op,        \* thread -> "idle" | "write" | "read" | "update"
    t_step,      \* thread -> 0 spinning on lock_, 1.. inside the critical section
    t_arg,       \* thread -> argument v of write()
    t_tmp,       \* thread -> local copy (read result / update operand)
    l_calls,     \* calls started, all threads together
    t_out,       \* thread -> result of the last read()
    l_serial,    \* history: value a one-at-a-time execution would hold
    l_writes,    \* history: number of write() calls started
    l_updates,   \* history: number of update() calls completed
    \* ---- one object's fields, producer stores and FieldProxy reads ----
    f_mem,       \* the object's memory, word by word (offset -> content)
    f_pc,        \* producer: "idle" | "storing" (inside a plain store)
    f_field,     \* producer: field of the last store
    f_k,         \* producer: value of the last store
    f_pending,   \* producer: words of the running plain store not yet written
    f_begun,     \* history: field -> stores begun (the k-th store stores k)
    f_stored,    \* history: field -> stores completed
    v_pc,        \* observer: "idle" | "loading" | "done"
    v_field,     \* observer: field of the FieldProxy being read
    v_left,      \* observer: words a plain load has not yet read
    v_val,       \* observer: words read so far
    v_out,       \* observer: what read() returned
    v_floor,     \* history: stores to the field completed when read() began
    v_raced,     \* history: a store to the field overlapped the read
    \* ---- producer process: registry globals ----
    g_types,             \* registry: vector of (type_id, descriptor)
    g_name_to_id,        \* registry: map name -> type_id
    \* ---- producer process: Context, RegionManager, ObjectManager ----
    initialized_,        \* Context::initialized_
    config_,             \* Context::config_
    regions_,            \* RegionManager::regions_ (ids, in creation order)
    next_region_id_,     \* RegionManager::next_region_id_
    current_region_size_,\* RegionManager::current_region_size_
    ptr_to_entry_,       \* ObjectManager::ptr_to_entry_ (pointer -> slot index)
    p_pc,                \* producer thread: position inside the running call
    p,                   \* producer thread: locals of the running call (seq0 and
                         \* regions0 are history: header.sequence and the number
                         \* of regions when the call began)
    p_ret,               \* producer thread: what the last call returned
    \* ---- shared memory ----
    header_shm,          \* TRUE while the header segment exists under its name
    header,              \* TelemetryHeader
    type_entries,        \* type table of the header segment (written part)
    field_entries,       \* field pool of the header segment (written part)
    entries,             \* object directory of the header segment
    region_shm,          \* region id -> RegionDescriptor of that segment
    \* ---- observer process ----
    connected_,          \* Observer::connected_
    last_sequence_,      \* Observer::last_sequence_
    types_,              \* Observer::types_
    region_shms_,        \* Observer::region_shms_ (ids of the mapped regions)
    o_ret,               \* observer: what the last call returned
    \* ---- observer writing a Guarded field through its FieldProxy ----
    x_pc,        \* "idle" | "stores"
    x_s,         \* local s of the write() it runs
    x_v,         \* argument of that write()
    x_pending,   \* stores issued by that write() and not yet visible
    \* ---- a FieldProxy obtained from an ObjectView ----
    fp,          \* the proxy: field_ (type and index of the entry), data_
    fp_path,     \* history: the operator[] calls that led to it
    \* ---- SharedMemory handles and the names of the system ----
    shm_handles, \* handle -> data_ (segment mapped, 0: none), is_owner_, name_
    shm_names,   \* name -> segment the name refers to (0: no such name)
    shm_next,    \* the next segment shm_open creates
    \* ---- memglass-diff: one call of a function of the tool ----
    d_op,        \* the function called ("none" before the call)
    d_in,        \* its arguments
    d_out,       \* what it returned or wrote
    \* ---- an ObjectView the observer program keeps ----
    held,        \* the view: its object's slot, data_ and type_
    held_out     \* the last field lookup through it

seqVars  == <<seq_, value_, w_pc, w_s, w_v, w_pending, written,
              r_pc, r_kind, r_s1, r_s2, r_left, r_result, r_out>>
lockVars == <<lock_, value, t_op, t_step, t_arg, t_tmp, l_calls, t_out,
              l_serial, l_writes, l_updates>>
regVars  == <<g_types, g_name_to_id>>
prodVars == <<initialized_, config_, regions_, next_region_id_,
              current_region_size_, ptr_to_entry_, p_pc, p, p_ret>>
shmVars  == <<header_shm, header, type_entries, field_entries, entries, region_shm>>
obsVars  == <<connected_, last_sequence_, types_, region_shms_, o_ret>>
mainVars == <<regVars, prodVars, shmVars, obsVars>>
fieldVars == <<f_mem, f_pc, f_field, f_k, f_pending, f_begun, f_stored,
               v_pc, v_field, v_left, v_val, v_out, v_floor, v_raced>>
proxyVars == <<x_pc, x_s, x_v, x_pending>>
lookupVars == <<fp, fp_path>>
handleVars == <<shm_handles, shm_names, shm_next>>
diffVars == <<d_op, d_in, d_out>>
viewVars == <<held, held_out>>
vars     == <<seqVars, lockVars, fieldVars, mainVars, proxyVars, lookupVars, handleVars,
             diffVars, viewVars>>

\* what the actions of one part leave alone
notSeqVars  == <<lockVars, fieldVars, mainVars, proxyVars, lookupVars, handleVars, diffVars, viewVars>>
notLockVars == <<seqVars, fieldVars, mainVars, proxyVars, lookupVars, handleVars, diffVars, viewVars>>
notFieldVars == <<seqVars, lockVars, mainVars, proxyVars, lookupVars, handleVars, diffVars, viewVars>>
notMainVars == <<seqVars, lockVars, fieldVars, proxyVars, lookupVars, handleVars, diffVars, viewVars>>
notLookupVars == <<seqVars, lockVars, fieldVars, mainVars, proxyVars, handleVars, diffVars, viewVars>>
notHandleVars == <<seqVars, lockVars, fieldVars, mainVars, proxyVars, lookupVars, diffVars, viewVars>>
notDiffVars == <<seqVars, lockVars, fieldVars, mainVars, proxyVars, lookupVars, handleVars,
                viewVars>>
notViewVars == <<seqVars, lockVars, fieldVars, mainVars, proxyVars, lookupVars, handleVars,
                diffVars>>

\* The payload T: two members, as SimpleData {a, b} of the seqlock test.
WordOrder == <<"a", "b">>
Words   == {WordOrder[i] : i \in 1..Len(WordOrder)}
Readers == 1..NReaders
Threads == 1..NThreads

\* A payload whose every word is k: the value a caller passes whole.
Whole(k) == [i \in Words |-> k]

\* std::optional<T>
Nullopt == [has |-> FALSE, val |-> Whole(0)]
Some(v) == [has |-> TRUE, val |-> v]

(***************************************************************************)
(* Guarded<T>                                                              *)
(***************************************************************************)
SeqInit ==
    /\ seq_ = 0
    /\ value_ = Whole(0)
    /\ w_pc = "idle" /\ w_s = 0 /\ w_v = Whole(0) /\ w_pending = {}
    /\ written = <<>>
    /\ r_pc = [r \in Readers |-> "idle"]
    /\ r_kind = [r \in Readers |-> "read"]
    /\ r_s1 = [r \in Readers |-> 0]
    /\ r_s2 = [r \in Readers |-> 0]
    /\ r_left = [r \in Readers |-> {}]
    /\ r_result = [r \in Readers |-> Whole(0)]
    /\ r_out = [r \in Readers |-> Nullopt]

\* Guarded::write, lines 39-44: s = seq_.load(relaxed); seq_.store(s+1, relaxed);
\* compiler barrier; value_ = v.  The three stores are issued here.
GuardedWriteBegin(k) ==
    /\ w_pc = "idle"
    /\ Len(written) < MaxWrites
    /\ w_s' = seq_
    /\ w_v' = Whole(k)
    /\ w_pending' = {"seq"} \cup Words
    /\ written' = Append(written, Whole(k))
    /\ w_pc' = "stores"
    /\ UNCHANGED <<notSeqVars, seq_, value_, r_pc, r_kind, r_s1, r_s2, r_left, r_result, r_out>>

\* The order in which the stores of write() may become visible to another
\* thread.  seq_.store(s+1) is memory_order_relaxed and is followed by a
\* compiler barrier only, so nothing orders it before the plain stores to
\* value_: any pending store may become visible next.  (seq_ is 32 bits wide;
\* MaxWrites keeps it far from wrapping.)
GuardedStoreMayBecomeVisible(x, pending) == x \in pending

\* One store of write() becomes visible.
GuardedWriteStore(x) ==
    /\ w_pc = "stores"
    /\ x \in w_pending
    /\ GuardedStoreMayBecomeVisible(x, w_pending)
    /\ IF x = "seq"
         THEN /\ seq_' = w_s + 1
              /\ UNCHANGED value_
         ELSE /\ value_' = [value_ EXCEPT ![x] = w_v[x]]
              /\ UNCHANGED seq_
    /\ w_pending' = w_pending \ {x}
    /\ UNCHANGED <<notSeqVars, w_pc, w_s, w_v, written, r_pc, r_kind, r_s1, r_s2, r_left, r_result, r_out>>

\* A write() that returns without its second store to seq_.
GuardedWriteEnd_NoStore ==
    /\ w_pc = "stores"
    /\ w_pending = {}
    /\ w_pc' = "idle"
    /\ UNCHANGED <<notSeqVars, seq_, value_, w_s, w_v, w_pending, written,
                   r_pc, r_kind, r_s1, r_s2, r_left, r_result, r_out>>

\* Guarded::write, line 48: seq_.store(s+2, release), visible after all the
\* stores before it.
GuardedWriteEnd ==
    /\ w_pc = "stores"
    /\ w_pending = {}
    /\ seq_' = w_s + 2
    /\ w_pc' = "idle"
    /\ UNCHANGED <<notSeqVars, value_, w_s, w_v, w_pending, written,
                   r_pc, r_kind, r_s1, r_s2, r_left, r_result, r_out>>

\* The values an uninitialized local may hold: read() declares `T result;
\* uint32_t s1, s2;` (lines 52-53) and can read s2 and result before it has
\* assigned them.  IndeterminateSeq holds a value seq_ never has and one it
\* has during the first write; IndeterminateWord a value no write passes.
IndeterminateSeq == {0 - 1, 1}
IndeterminateWord == 0 - 1

\* A reader calls read() or try_read().  (try_read assigns its locals before
\* it reads them.)
GuardedReadCall(r, kind) ==
    /\ r_pc[r] \in {"idle", "done"}
    /\ r_pc' = [r_pc EXCEPT ![r] = "load1"]
    /\ r_kind' = [r_kind EXCEPT ![r] = kind]
    /\ r_out' = [r_out EXCEPT ![r] = Nullopt]
    /\ r_s1' = [r_s1 EXCEPT ![r] = 0]
    /\ IF kind = "read"
         THEN /\ \E s2 \in IndeterminateSeq : r_s2' = [r_s2 EXCEPT ![r] = s2]
              /\ r_result' = [r_result EXCEPT ![r] = Whole(IndeterminateWord)]
         ELSE /\ r_s2' = [r_s2 EXCEPT ![r] = 0]
              /\ r_result' = [r_result EXCEPT ![r] = Whole(0)]
    /\ UNCHANGED <<notSeqVars, seq_, value_, w_pc, w_s, w_v, w_pending, written, r_left>>

\* A read() whose `continue` on an odd s1 starts the next round with the
\* load of s1, without the test of the loop.
ReadLeavesLoop_Never(s1, s2) == FALSE

\* read(), lines 60-63 and 79: on an odd s1 `continue` goes to the test of
\* the do-while loop, while (s1 != s2), with the s2 of the round before (or
\* an s2 never assigned); the loop is left when the two are equal.
ReadLeavesLoop(s1, s2) == s1 = s2

\* s1 = seq_.load(acquire); odd: read() pauses and continues, try_read()
\* returns nullopt.
GuardedLoadS1(r) ==
    /\ r_pc[r] = "load1"
    /\ r_s1' = [r_s1 EXCEPT ![r] = seq_]
    /\ IF seq_ % 2 = 1
         THEN /\ IF r_kind[r] = "try_read"
                   THEN /\ r_pc' = [r_pc EXCEPT ![r] = "done"]
                        /\ UNCHANGED r_out
                   ELSE IF ReadLeavesLoop(seq_, r_s2[r])
                     THEN /\ r_pc' = [r_pc EXCEPT ![r] = "done"]
                          /\ r_out' = [r_out EXCEPT ![r] = Some(r_result[r])]
                     ELSE UNCHANGED <<r_pc, r_out>>
              /\ UNCHANGED r_left
         ELSE /\ r_pc' = [r_pc EXCEPT ![r] = "copy"]
              /\ r_left' = [r_left EXCEPT ![r] = Words]
              /\ UNCHANGED r_out
    /\ UNCHANGED <<notSeqVars, seq_, value_, w_pc, w_s, w_v, w_pending, written,
                   r_kind, r_s2, r_result>>

\* memcpy(&result, &value_, sizeof(T)) between the two fences: one word.
GuardedCopyWord(r, i) ==
    /\ r_pc[r] = "copy"
    /\ i \in r_left[r]
    /\ r_result' = [r_result EXCEPT ![r][i] = value_[i]]
    /\ r_left' = [r_left EXCEPT ![r] = @ \ {i}]
    /\ r_pc' = [r_pc EXCEPT ![r] = IF r_left[r] = {i} THEN "load2" ELSE "copy"]
    /\ UNCHANGED <<notSeqVars, seq_, value_, w_pc, w_s, w_v, w_pending, written, r_kind, r_s1, r_s2, r_out>>

\* s2 = seq_.load(acquire); s1 != s2: read() retries, try_read() returns
\* nullopt; otherwise the copy is returned.
GuardedLoadS2(r) ==
    /\ r_pc[r] = "load2"
    /\ r_s2' = [r_s2 EXCEPT ![r] = seq_]
    /\ IF r_s1[r] # seq_
         THEN /\ r_pc' = [r_pc EXCEPT ![r] =
                             IF r_kind[r] = "read" THEN "load1" ELSE "done"]
              /\ UNCHANGED r_out
         ELSE /\ r_pc' = [r_pc EXCEPT ![r] = "done"]
              /\ r_out' = [r_out EXCEPT ![r] = Some(r_result[r])]
    /\ UNCHANGED <<notSeqVars, seq_, value_, w_pc, w_s, w_v, w_pending, written,
                   r_kind, r_s1, r_left, r_result>>

(***************************************************************************)
(* FieldProxy::operator= on a Seqlock field: write_seqlock calls           *)
(* Guarded<T>::write on the producer's Guarded from the observer's thread  *)
(***************************************************************************)
ProxyIdle == x_pc = "idle" /\ x_s = 0 /\ x_v = Whole(0) /\ x_pending = {}

\* Guarded::write, lines 39-44, run by the observer.
ProxyWriteBegin(k) ==
    /\ x_pc = "idle"
    /\ Len(written) < MaxWrites
    /\ x_s' = seq_
    /\ x_v' = Whole(k)
    /\ x_pending' = {"seq"} \cup Words
    /\ written' = Append(written, Whole(k))
    /\ x_pc' = "stores"
    /\ UNCHANGED <<lockVars, fieldVars, mainVars, lookupVars, handleVars, diffVars, viewVars, seq_, value_, w_pc, w_s, w_v, w_pending,
                   r_pc, r_kind, r_s1, r_s2, r_left, r_result, r_out>>

\* One store of the observer's write() becomes visible.
ProxyWriteStore(x) ==
    /\ x_pc = "stores"
    /\ x \in x_pending
    /\ GuardedStoreMayBecomeVisible(x, x_pending)
    /\ IF x = "seq"
         THEN /\ seq_' = x_s + 1
              /\ UNCHANGED value_
         ELSE /\ value_' = [value_ EXCEPT ![x] = x_v[x]]
              /\ UNCHANGED seq_
    /\ x_pending' = x_pending \ {x}
    /\ UNCHANGED <<lockVars, fieldVars, mainVars, lookupVars, handleVars, diffVars, viewVars, x_pc, x_s, x_v, w_pc, w_s, w_v, w_pending,
                   written, r_pc, r_kind, r_s1, r_s2, r_left, r_result, r_out>>

\* Guarded::write, line 48, run by the observer: seq_.store(s+2, release).
ProxyWriteEnd ==
    /\ x_pc = "stores"
    /\ x_pending = {}
    /\ seq_' = x_s + 2
    /\ x_pc' = "idle"
    /\ UNCHANGED <<lockVars, fieldVars, mainVars, lookupVars, handleVars, diffVars, viewVars, x_s, x_v, x_pending, value_,
                   w_pc, w_s, w_v, w_pending, written,
                   r_pc, r_kind, r_s1, r_s2, r_left, r_result, r_out>>

(***************************************************************************)
(* Locked<T>                                                               *)
(***************************************************************************)
LockInit ==
    /\ lock_ = FALSE
    /\ value = Whole(0)
    /\ t_op = [t \in Threads |-> "idle"]
    /\ t_step = [t \in Threads |-> 0]
    /\ t_arg = [t \in Threads |-> 0]
    /\ t_tmp = [t \in Threads |-> Whole(0)]
    /\ l_calls = 0
    /\ t_out = [t \in Threads |-> Whole(0)]
    /\ l_serial = 0
    /\ l_writes = 0
    /\ l_updates = 0

\* A test_and_set that never finds the flag set.
TestAndSetFails_NoLock == FALSE

\* lock_.test_and_set(acquire): TRUE when the flag was already set.
TestAndSetFails == lock_

\* A thread calls write(v), read() or update(increment).
LockedCall(t, op, k) ==
    /\ t_op[t] = "idle"
    /\ l_calls < MaxCalls
    /\ l_calls' = l_calls + 1
    /\ t_out' = [t_out EXCEPT ![t] = Whole(0)]
    /\ t_op' = [t_op EXCEPT ![t] = op]
    /\ t_step' = [t_step EXCEPT ![t] = 0]
    /\ t_arg' = [t_arg EXCEPT ![t] = k]
    /\ l_writes' = IF op = "write" THEN l_writes + 1 ELSE l_writes
    /\ UNCHANGED <<notLockVars, lock_, value, t_tmp, l_serial, l_updates>>

\* while (lock_.test_and_set(acquire)) PAUSE;  one round of the loop.
LockedAcquire(t) ==
    /\ t_op[t] # "idle" /\ t_step[t] = 0
    /\ IF TestAndSetFails
         THEN UNCHANGED <<lock_, t_step>>
         ELSE /\ lock_' = TRUE
              /\ t_step' = [t_step EXCEPT ![t] = 1]
    /\ UNCHANGED <<notLockVars, value, t_op, t_arg, t_tmp, l_calls, t_out, l_serial, l_writes, l_updates>>

\* Between a successful test_and_set and the clear.
InCriticalSection(t) == t_op[t] # "idle" /\ t_step[t] > 0

\* write: memcpy(&value, &v, sizeof(T)), one word.
LockedWriteWord(t) ==
    /\ t_op[t] = "write" /\ t_step[t] \in 1..Len(WordOrder)
    /\ value' = [value EXCEPT ![WordOrder[t_step[t]]] = t_arg[t]]
    /\ t_step' = [t_step EXCEPT ![t] = @ + 1]
    /\ UNCHANGED <<notLockVars, lock_, t_op, t_arg, t_tmp, l_calls, t_out, l_serial, l_writes, l_updates>>

\* read: memcpy(&result, &value, sizeof(T)), one word.
LockedReadWord(t) ==
    /\ t_op[t] = "read" /\ t_step[t] \in 1..Len(WordOrder)
    /\ t_tmp' = [t_tmp EXCEPT ![t][WordOrder[t_step[t]]] = value[WordOrder[t_step[t]]]]
    /\ t_step' = [t_step EXCEPT ![t] = @ + 1]
    /\ UNCHANGED <<notLockVars, lock_, value, t_op, t_arg, l_calls, t_out, l_serial, l_writes, l_updates>>

\* update: func(value) with func = increment: load the operand ...
LockedUpdateLoad(t) ==
    /\ t_op[t] = "update" /\ t_step[t] = 1
    /\ t_tmp' = [t_tmp EXCEPT ![t] = value]
    /\ t_step' = [t_step EXCEPT ![t] = Len(WordOrder)]
    /\ UNCHANGED <<notLockVars, lock_, value, t_op, t_arg, l_calls, t_out, l_serial, l_writes, l_updates>>

\* ... and store the incremented value.
LockedUpdateStore(t) ==
    /\ t_op[t] = "update" /\ t_step[t] = Len(WordOrder)
    /\ value' = [i \in Words |-> t_tmp[t][i] + 1]
    /\ t_step' = [t_step EXCEPT ![t] = Len(WordOrder) + 1]
    /\ UNCHANGED <<notLockVars, lock_, t_op, t_arg, t_tmp, l_calls, t_out, l_serial, l_writes, l_updates>>

\* A return that leaves the flag set.
LockedRelease_FlagKept(t) ==
    /\ t_op[t] # "idle" /\ t_step[t] = Len(WordOrder) + 1
    /\ t_out' = [t_out EXCEPT ![t] = IF t_op[t] = "read" THEN t_tmp[t] ELSE @]
    /\ l_serial' = CASE t_op[t] = "write"  -> t_arg[t]
                     [] t_op[t] = "update" -> l_serial + 1
                     [] OTHER              -> l_serial
    /\ l_updates' = IF t_op[t] = "update" THEN l_updates + 1 ELSE l_updates
    /\ t_op' = [t_op EXCEPT ![t] = "idle"]
    /\ t_step' = [t_step EXCEPT ![t] = 0]
    /\ t_arg' = [t_arg EXCEPT ![t] = 0]
    /\ t_tmp' = [t_tmp EXCEPT ![t] = Whole(0)]
    /\ UNCHANGED <<notLockVars, lock_, value, l_calls, l_writes>>

\* lock_.clear(release) and return.
LockedRelease(t) ==
    /\ t_op[t] # "idle" /\ t_step[t] = Len(WordOrder) + 1
    /\ lock_' = FALSE
    /\ t_out' = [t_out EXCEPT ![t] = IF t_op[t] = "read" THEN t_tmp[t] ELSE @]
    /\ l_serial' = CASE t_op[t] = "write"  -> t_arg[t]
                     [] t_op[t] = "update" -> l_serial + 1
                     [] OTHER              -> l_serial
    /\ l_updates' = IF t_op[t] = "update" THEN l_updates + 1 ELSE l_updates
    /\ t_op' = [t_op EXCEPT ![t] = "idle"]
    /\ t_step' = [t_step EXCEPT ![t] = 0]
    /\ t_arg' = [t_arg EXCEPT ![t] = 0]
    /\ t_tmp' = [t_tmp EXCEPT ![t] = Whole(0)]
    /\ UNCHANGED <<notLockVars, value, l_calls, l_writes>>

(***************************************************************************)
(* Producer and observer: constants, layouts and helpers                   *)
(***************************************************************************)
\* region ids handed out by one RegionManager (caps next_region_id_)
MaxRegionId == 2

\* The magic numbers, by the text they spell.
HEADER_MAGIC == "MEMGLASS"
REGION_MAGIC == "REGNMEMG"
PROTOCOL_VERSION == 1
\* FieldFlags
IsArray == 1
IsNested == 2
\* PrimitiveType
Int64 == 8
UserTypeBase == 65536
\* ObjectState
Free == 0
Alive == 1
Destroyed == 2
\* sizeof of the shared structures
SizeofFieldEntry == 88
SizeofTypeEntry == 152
SizeofRegionDescriptor == 104
SizeofTelemetryHeader == 160

\* uint64_t / size_t values are held as integers near 0; a negative integer
\* -k stands for 2^64 - k, so that sums wrap as the 64-bit sums do.
\* a < b on such values
ULess(a, b) == IF (a < 0) = (b < 0) THEN a < b ELSE b < 0

Max(a, b) == IF ULess(a, b) THEN b ELSE a
Min(a, b) == IF ULess(b, a) THEN b ELSE a

\* x & y on unsigned integers
RECURSIVE BitAnd(_, _)
BitAnd(x, y) ==
    IF x = 0 \/ y = 0 THEN 0
    ELSE (IF x % 2 = 1 /\ y % 2 = 1 THEN 1 ELSE 0) + 2 * BitAnd(x \div 2, y \div 2)

\* x | y
BitOr(x, y) == x + y - BitAnd(x, y)

\* (current + alignment - 1) & ~(alignment - 1)
AlignUp(current, alignment) ==
    LET t == current + alignment - 1
    IN  t - BitAnd(t, alignment - 1)

\* The character codes of the names used below.
CharCode ==
    [A |-> 65, B |-> 66, b |-> 98, C |-> 67, I |-> 73, L |-> 76,
     h |-> 104, j |-> 106, p |-> 112, q |-> 113]

\* registry.cpp hash_name: djb2 over the characters, or-ed with UserTypeBase.
\* The arithmetic is uint32_t: a value of 2^31 or more is written as the
\* negative number congruent to it modulo 2^32 (0xFFFFFFFF is -1), and
\* hash * 33 + c is computed modulo 2^32 on the two 16-bit halves.
RECURSIVE Djb2(_, _)
Djb2(hash, name) ==
    IF name = <<>> THEN hash
    ELSE LET lo == (hash % 65536) * 33 + CharCode[Head(name)]
             hi == (((hash \div 65536) % 65536) * 33 + (lo \div 65536)) % 65536
             top == IF hi >= 32768 THEN hi - 65536 ELSE hi
         IN  Djb2(top * 65536 + (lo % 65536), Tail(name))

hash_name(name) == BitOr(Djb2(5381, name), UserTypeBase)

\* The C++ types of the producer program and their generated descriptors:
\*   struct Ab { std::atomic<int64_t> x; int64_t y; };   struct BA { int64_t x; };
\* "Ab" and "BA" hash to the same id.  typeid is typeid(T).name().
TypeDescriptor ==
    [Ab |-> [name |-> <<"A", "b">>, typeid |-> <<"2", "A", "b">>,
             size |-> 16, alignment |-> 8,
             fields |-> << [name |-> "x", offset |-> 0, size |-> 8,
                            primitive_type |-> Int64, atomicity |-> "Atomic"],
                           [name |-> "y", offset |-> 8, size |-> 8,
                            primitive_type |-> Int64, atomicity |-> "None"] >>],
     BA |-> [name |-> <<"B", "A">>, typeid |-> <<"2", "B", "A">>,
             size |-> 8, alignment |-> 8,
             fields |-> << [name |-> "x", offset |-> 0, size |-> 8,
                            primitive_type |-> Int64, atomicity |-> "None"] >>],
     \* three more descriptors handed to registry::register_type directly:
     \* "hLICpj" and "hLICqI" both hash to 0xFFFFFFFF
     B |-> [name |-> <<"B">>, typeid |-> <<"1", "B">>,
            size |-> 8, alignment |-> 8, fields |-> <<>>],
     hLICpj |-> [name |-> <<"h", "L", "I", "C", "p", "j">>,
                 typeid |-> <<"6", "h", "L", "I", "C", "p", "j">>,
                 size |-> 8, alignment |-> 8, fields |-> <<>>],
     hLICqI |-> [name |-> <<"h", "L", "I", "C", "q", "I">>,
                 typeid |-> <<"6", "h", "L", "I", "C", "q", "I">>,
                 size |-> 8, alignment |-> 8, fields |-> <<>>]]
\* the types the producer program registers with register_type_for
Types == {"Ab", "BA"}

\* Config values a session may be started with.
Configs ==
    { [initial_region_size |-> 16, max_region_size |-> 32,
       max_types |-> 1, max_fields |-> 1, max_objects |-> 2] }
NoConfig == [initial_region_size |-> 0, max_region_size |-> 0,
             max_types |-> 0, max_fields |-> 0, max_objects |-> 0]

Labels == {"a", "b"}

\* Pointers of the producer: (region id, offset from the region's base);
\* a pointer to something outside every region has region id 0.
Nullptr == <<0, 0>>
OutsidePtr == <<0, 8>>

\* A zeroed TelemetryHeader, TypeEntry-free tables and a zeroed ObjectEntry.
ZeroHeader ==
    [magic |-> "", version |-> 0, sequence |-> 0,
     type_registry_offset |-> 0, type_registry_capacity |-> 0, type_count |-> 0,
     field_entries_offset |-> 0, field_entries_capacity |-> 0, field_count |-> 0,
     object_dir_capacity |-> 0, object_count |-> 0, first_region_id |-> 0]
ZeroObjectEntry ==
    [state |-> Free, type_id |-> 0, region_id |-> 0, offset |-> 0,
     generation |-> 0, label |-> ""]

NoLocals == [op |-> "none", type_id |-> 0, label |-> "", size |-> 0, alignment |-> 0,
             rid |-> 0, aligned |-> 0, new_used |-> 0, ptr |-> Nullptr, slot |-> 0,
             seq0 |-> 0, regions0 |-> 0]
NoReturn == [op |-> "none", ok |-> FALSE, ptr |-> Nullptr, slot |-> 0 - 1, seq0 |-> 0]
NoResult == [op |-> "none", label |-> "", valid |-> FALSE, slot |-> 0 - 1,
             region_id |-> 0, offset |-> 0, list |-> <<>>, opened |-> {}]

(***************************************************************************)
(* Type registry (process globals of the producer)                         *)
(***************************************************************************)
\* get_type_id: 0 when the name is unknown.
get_type_id(name) == IF name \in DOMAIN g_name_to_id THEN g_name_to_id[name] ELSE 0

\* register_type, lines 41-54: the hash, moved up past the ids in use.
\* type_id++ is on a uint32_t: 0xFFFFFFFF (-1 here) moves up to 0.
RECURSIVE UniqueTypeId(_)
UniqueTypeId(type_id) ==
    IF \E i \in 1..Len(g_types) : g_types[i].type_id = type_id
      THEN UniqueTypeId(type_id + 1)
      ELSE type_id

\* registry::register_type(desc): the id returned and the new globals.  A
\* name already registered gets its id back and nothing changes.
register_type(T) ==
    LET desc == TypeDescriptor[T]
    IN  IF desc.name \in DOMAIN g_name_to_id
          THEN [id |-> g_name_to_id[desc.name], types |-> g_types, names |-> g_name_to_id]
          ELSE LET id == UniqueTypeId(hash_name(desc.name))
               IN  [id |-> id,
                    types |-> Append(g_types, [type_id |-> id, desc |-> T]),
                    names |-> (desc.name :> id) @@ g_name_to_id]

\* What a step of the producer records about the observer: it made no call.
NoObserverCall ==
    /\ o_ret' = NoResult
    /\ UNCHANGED <<connected_, last_sequence_, types_, region_shms_>>

\* registry::register_type_for<T>(desc): register_type, then
\* register_type_alias(typeid(T).name(), id).
register_type_for(T) ==
    LET r == register_type(T)
    IN  /\ p_pc = "idle"
        /\ g_types' = r.types
        /\ g_name_to_id' = (TypeDescriptor[T].typeid :> r.id) @@ r.names
        /\ p_ret' = [NoReturn EXCEPT !.op = "register_type", !.ok = TRUE]
        /\ NoObserverCall
        /\ UNCHANGED <<notMainVars, shmVars, initialized_, config_, regions_,
                       next_region_id_, current_region_size_, ptr_to_entry_, p_pc, p>>

\* A call of registry::register_type(desc) on its own, as the registry's
\* tests make it.
register_type_call(T) ==
    LET r == register_type(T)
    IN  /\ p_pc = "idle"
        /\ g_types' = r.types
        /\ g_name_to_id' = r.names
        /\ p_ret' = [NoReturn EXCEPT !.op = "register_type", !.ok = TRUE]
        /\ NoObserverCall
        /\ UNCHANGED <<notMainVars, shmVars, initialized_, config_, regions_,
                       next_region_id_, current_region_size_, ptr_to_entry_, p_pc, p>>

(***************************************************************************)
(* Context::init                                                           *)
(***************************************************************************)
FieldEntryOf(fd) ==
    [offset |-> fd.offset, size |-> fd.size, type_id |-> fd.primitive_type,
     flags |-> 0, array_size |-> 0, atomicity |-> fd.atomicity, name |-> fd.name]

\* A write_to_header that checks neither capacity.
RECURSIVE write_to_header_Unbounded(_, _, _, _)
write_to_header_Unbounded(i, tes, fes, h) ==
    IF i > Len(g_types)
      THEN [types |-> tes, fields |-> fes]
      ELSE LET desc == TypeDescriptor[g_types[i].desc]
               entry == [type_id |-> g_types[i].type_id,
                         size |-> desc.size,
                         alignment |-> desc.alignment,
                         field_count |-> Len(desc.fields),
                         fields_offset |-> h.field_entries_offset + Len(fes) * SizeofFieldEntry,
                         name |-> desc.name]
           IN  write_to_header_Unbounded(i + 1, Append(tes, entry),
                   fes \o [k \in 1..Len(desc.fields) |-> FieldEntryOf(desc.fields[k])], h)

\* registry::write_to_header, lines 110-144: the loop over g_types from
\* index i on, given the type entries and field entries written so far.
RECURSIVE write_to_header(_, _, _, _)
write_to_header(i, tes, fes, h) ==
    IF i > Len(g_types) \/ Len(tes) >= h.type_registry_capacity
      THEN [types |-> tes, fields |-> fes]
      ELSE LET desc == TypeDescriptor[g_types[i].desc]
               room == h.field_entries_capacity - Len(fes)
               n == Min(Len(desc.fields), room)
               entry == [type_id |-> g_types[i].type_id,
                         size |-> desc.size,
                         alignment |-> desc.alignment,
                         field_count |-> Len(desc.fields),
                         fields_offset |-> h.field_entries_offset + Len(fes) * SizeofFieldEntry,
                         name |-> desc.name]
           IN  write_to_header(i + 1, Append(tes, entry),
                               fes \o [k \in 1..n |-> FieldEntryOf(desc.fields[k])], h)

\* The header as Context::init lays it out, lines 284-303 (before the region
\* manager and the registry write to it).
InitHeader(cfg) ==
    [magic |-> HEADER_MAGIC, version |-> PROTOCOL_VERSION, sequence |-> 0,
     type_registry_offset |-> SizeofTelemetryHeader,
     type_registry_capacity |-> cfg.max_types, type_count |-> 0,
     field_entries_offset |-> SizeofTelemetryHeader + cfg.max_types * SizeofTypeEntry,
     field_entries_capacity |-> cfg.max_fields, field_count |-> 0,
     object_dir_capacity |-> cfg.max_objects, object_count |-> 0,
     first_region_id |-> 0]

\* The descriptor of a segment shm.create has just made: zeroed memory.
ZeroRegionDescriptor ==
    [magic |-> "", region_id |-> 0, size |-> 0, used |-> 0, next_region_id |-> 0]

\* The descriptor create_region writes into a fresh segment, lines 43-55.
NewRegionDescriptor(id, size) ==
    [magic |-> REGION_MAGIC, region_id |-> id,
     size |-> SizeofRegionDescriptor + size,
     used |-> SizeofRegionDescriptor, next_region_id |-> 0]

\* memglass::init / Context::init(session, cfg).  header_ok and region_ok say
\* whether creating the header segment and the first region succeeds.
ContextInit(cfg, header_ok, region_ok) ==
    /\ p_pc = "idle"
    /\ ~initialized_
    /\ ~header_shm
    /\ IF ~header_ok
         THEN /\ p_ret' = [NoReturn EXCEPT !.op = "init"]
              /\ UNCHANGED <<config_, regions_, next_region_id_, current_region_size_,
                             initialized_, shmVars>>
         ELSE /\ config_' = cfg
              /\ regions_' = IF region_ok THEN <<1>> ELSE <<>>
              /\ next_region_id_' = 2
              /\ current_region_size_' = cfg.initial_region_size
              /\ IF ~region_ok
                   THEN /\ p_ret' = [NoReturn EXCEPT !.op = "init"]
                        /\ UNCHANGED <<initialized_, shmVars>>
                   ELSE LET h == InitHeader(cfg)
                            w == write_to_header(1, <<>>, <<>>, h)
                        IN  /\ header_shm' = TRUE
                            /\ header' = [h EXCEPT !.first_region_id = 1,
                                                   !.type_count = Len(w.types),
                                                   !.field_count = Len(w.fields)]
                            /\ type_entries' = w.types
                            /\ field_entries' = w.fields
                            /\ entries' = [i \in 0..(cfg.max_objects - 1) |-> ZeroObjectEntry]
                            /\ region_shm' = (1 :> NewRegionDescriptor(1, cfg.initial_region_size))
                            /\ initialized_' = TRUE
                            /\ p_ret' = [NoReturn EXCEPT !.op = "init", !.ok = TRUE]
    /\ NoObserverCall
    /\ UNCHANGED <<notMainVars, regVars, ptr_to_entry_, p_pc, p>>

(***************************************************************************)
(* RegionManager::allocate                                                 *)
(***************************************************************************)
\* The call returns to its caller.  (slot and seq0 are history: the directory
\* slot the call wrote, and header.sequence when the call began.)
Return(op, ok, ptr, slot, seq0) ==
    /\ p_pc' = "idle"
    /\ p' = NoLocals
    /\ p_ret' = [op |-> op, ok |-> ok, ptr |-> ptr, slot |-> slot, seq0 |-> seq0]

\* The frame of the steps of allocate, register_object and destroy_object.
UnchangedByObjectCalls ==
    /\ NoObserverCall
    /\ UNCHANGED <<notMainVars, regVars, initialized_, config_,
                   header_shm, type_entries, field_entries>>

\* allocate(size, alignment), lines 77-94, called for `op` ("allocate" itself
\* or a create that goes on to register the object).  shm_ok says whether
\* creating a new segment succeeds, should one be needed.
allocate(op, size, alignment, type_id, label, shm_ok) ==
    LET region == regions_[Len(regions_)]
        d == region_shm[region]
        aligned == AlignUp(d.used, alignment)
        new_used == aligned + size
        new_size == Min(Max(size + SizeofRegionDescriptor, current_region_size_ * 2),
                        config_.max_region_size)
        id == next_region_id_
        locals == [NoLocals EXCEPT !.op = op, !.type_id = type_id, !.label = label,
                                   !.size = size, !.alignment = alignment,
                                   !.seq0 = header.sequence,
                                   !.regions0 = Len(regions_)]
    IN  IF ULess(d.size, new_used)
          THEN /\ id <= MaxRegionId
               /\ current_region_size_' = new_size
               /\ next_region_id_' = id + 1
               /\ IF shm_ok
                    THEN /\ region_shm' = (id :> ZeroRegionDescriptor) @@ region_shm
                         /\ p' = [locals EXCEPT !.rid = id]
                         /\ p_pc' = "alloc_desc"
                         /\ p_ret' = NoReturn
                    ELSE /\ Return(op, FALSE, Nullptr, 0 - 1, header.sequence)
                         /\ UNCHANGED region_shm
          ELSE /\ shm_ok
               /\ p' = [locals EXCEPT !.rid = region, !.aligned = aligned, !.new_used = new_used]
               /\ p_pc' = "alloc_used"
               /\ p_ret' = NoReturn
               /\ UNCHANGED <<current_region_size_, next_region_id_, region_shm>>

\* regions().allocate(size, alignment) called by the program itself.
Allocate(size, alignment, shm_ok) ==
    /\ p_pc = "idle"
    /\ initialized_
    /\ allocate("allocate", size, alignment, 0, "", shm_ok)
    /\ UnchangedByObjectCalls
    /\ UNCHANGED <<regions_, ptr_to_entry_, header, entries>>

\* A create_region that publishes the new region first: it stores the id into
\* the previous region's next_region_id while the segment is still zeroed.
AllocateDescriptor_LinkedFirst ==
    /\ p_pc = "alloc_desc"
    /\ region_shm' = [region_shm EXCEPT ![regions_[Len(regions_)]].next_region_id = p.rid]
    /\ p_pc' = "alloc_link"
    /\ UnchangedByObjectCalls
    /\ UNCHANGED <<regions_, next_region_id_, current_region_size_, ptr_to_entry_,
                   p, p_ret, header, entries>>

\* create_region, lines 50-55: write the descriptor of the new segment, whose
\* payload size is the current_region_size_ that allocate has just set.
AllocateDescriptor ==
    /\ p_pc = "alloc_desc"
    /\ region_shm' = [region_shm EXCEPT ![p.rid] =
                          NewRegionDescriptor(p.rid, current_region_size_)]
    /\ p_pc' = "alloc_link"
    /\ UnchangedByObjectCalls
    /\ UNCHANGED <<regions_, next_region_id_, current_region_size_, ptr_to_entry_,
                   p, p_ret, header, entries>>

\* create_region, lines 58-65: link the new region behind the last one and
\* push it on regions_.
AllocateLink ==
    /\ p_pc = "alloc_link"
    /\ region_shm' = [region_shm EXCEPT ![regions_[Len(regions_)]].next_region_id = p.rid]
    /\ regions_' = Append(regions_, p.rid)
    /\ p_pc' = "alloc_seq"
    /\ UnchangedByObjectCalls
    /\ UNCHANGED <<next_region_id_, current_region_size_, ptr_to_entry_, p, p_ret,
                   header, entries>>

\* allocate, lines 97-102: bump the header sequence, recalculate for the new
\* region.
AllocateSequence ==
    /\ p_pc = "alloc_seq"
    /\ header' = [header EXCEPT !.sequence = @ + 1]
    /\ LET aligned == AlignUp(region_shm[p.rid].used, p.alignment)
       IN  p' = [p EXCEPT !.aligned = aligned, !.new_used = aligned + p.size]
    /\ p_pc' = "alloc_used"
    /\ UnchangedByObjectCalls
    /\ UNCHANGED <<regions_, next_region_id_, current_region_size_, ptr_to_entry_, p_ret,
                   entries, region_shm>>

\* allocate, lines 106-108: store the bump pointer and return base + aligned;
\* a create goes on to construct the object and to register it.
AllocateUsed ==
    /\ p_pc = "alloc_used"
    /\ region_shm' = [region_shm EXCEPT ![p.rid].used = p.new_used]
    /\ IF p.op = "create"
         THEN /\ p' = [p EXCEPT !.ptr = <<p.rid, p.aligned>>, !.seq0 = header.sequence]
              /\ p_pc' = "register"
              /\ UNCHANGED p_ret
         ELSE Return("allocate", TRUE, <<p.rid, p.aligned>>, 0 - 1, p.seq0)
    /\ UnchangedByObjectCalls
    /\ UNCHANGED <<regions_, next_region_id_, current_region_size_, ptr_to_entry_,
                   header, entries>>

(***************************************************************************)
(* create<T>, create_array<T>, ObjectManager::register_object              *)
(***************************************************************************)
\* create<T> without the test of the type id.
Create_AnyType(T, label, count, shm_ok) ==
    /\ p_pc = "idle"
    /\ IF ~initialized_
         THEN /\ shm_ok
              /\ Return("create", FALSE, Nullptr, 0 - 1, header.sequence)
              /\ UNCHANGED <<next_region_id_, current_region_size_, region_shm>>
         ELSE allocate("create", TypeDescriptor[T].size * count, TypeDescriptor[T].alignment,
                       get_type_id(TypeDescriptor[T].typeid), label, shm_ok)
    /\ UnchangedByObjectCalls
    /\ UNCHANGED <<regions_, ptr_to_entry_, header, entries>>

\* create<T>(label) is count = 1; create_array<T>(label, count) allocates
\* sizeof(T) * count.  Both need the session and T's typeid alias.
Create(T, label, count, shm_ok) ==
    /\ p_pc = "idle"
    /\ IF ~initialized_ \/ get_type_id(TypeDescriptor[T].typeid) = 0
         THEN /\ shm_ok
              /\ Return("create", FALSE, Nullptr, 0 - 1, header.sequence)
              /\ UNCHANGED <<next_region_id_, current_region_size_, region_shm>>
         ELSE allocate("create", TypeDescriptor[T].size * count, TypeDescriptor[T].alignment,
                       get_type_id(TypeDescriptor[T].typeid), label, shm_ok)
    /\ UnchangedByObjectCalls
    /\ UNCHANGED <<regions_, ptr_to_entry_, header, entries>>

\* RegionManager::get_location: the region of regions_ that holds ptr.
get_location(ptr) ==
    \E i \in 1..Len(regions_) :
        /\ regions_[i] = ptr[1]
        /\ ptr[2] < region_shm[regions_[i]].size

\* A register_object that stores object_count together with the slot's
\* state, before the other members of the slot are written.
RegisterState_Published ==
    /\ p_pc = "register"
    /\ LET count == header.object_count
       IN  IF count >= header.object_dir_capacity \/ ~get_location(p.ptr)
             THEN /\ Return("create", TRUE, p.ptr, 0 - 1, p.seq0)
                  /\ UNCHANGED <<entries, header>>
             ELSE /\ entries' = [entries EXCEPT ![count].state = Alive]
                  /\ header' = [header EXCEPT !.object_count = count + 1]
                  /\ p' = [p EXCEPT !.slot = count]
                  /\ p_pc' = "reg_fields"
                  /\ UNCHANGED p_ret
    /\ UnchangedByObjectCalls
    /\ UNCHANGED <<regions_, next_region_id_, current_region_size_, ptr_to_entry_,
                   region_shm>>

\* register_object, lines 150-168: directory full or pointer outside every
\* region: nothing is written (create returns the object all the same);
\* otherwise the slot's state becomes Alive.
RegisterState ==
    /\ p_pc = "register"
    /\ LET count == header.object_count
       IN  IF count >= header.object_dir_capacity \/ ~get_location(p.ptr)
             THEN /\ Return("create", TRUE, p.ptr, 0 - 1, p.seq0)
                  /\ UNCHANGED entries
             ELSE /\ entries' = [entries EXCEPT ![count].state = Alive]
                  /\ p' = [p EXCEPT !.slot = count]
                  /\ p_pc' = "reg_fields"
                  /\ UNCHANGED p_ret
    /\ UnchangedByObjectCalls
    /\ UNCHANGED <<regions_, next_region_id_, current_region_size_, ptr_to_entry_,
                   header, region_shm>>

\* register_object, lines 169-173: the other members of the slot.
RegisterFields ==
    /\ p_pc = "reg_fields"
    /\ entries' = [entries EXCEPT ![p.slot] =
                      [@ EXCEPT !.type_id = p.type_id, !.region_id = p.ptr[1],
                                !.offset = p.ptr[2], !.generation = 1, !.label = p.label]]
    /\ p_pc' = "reg_count"
    /\ UnchangedByObjectCalls
    /\ UNCHANGED <<regions_, next_region_id_, current_region_size_, ptr_to_entry_, p, p_ret,
                   header, region_shm>>

\* A register_object that bumps the sequence with object_count not yet stored.
RegisterCount_Skipped ==
    /\ p_pc = "reg_count"
    /\ p_pc' = "reg_seq"
    /\ UnchangedByObjectCalls
    /\ UNCHANGED <<regions_, next_region_id_, current_region_size_, ptr_to_entry_, p, p_ret,
                   header, entries, region_shm>>

\* register_object, line 176: object_count.store(count + 1).
RegisterCount ==
    /\ p_pc = "reg_count"
    /\ header' = [header EXCEPT !.object_count = p.slot + 1]
    /\ p_pc' = "reg_seq"
    /\ UnchangedByObjectCalls
    /\ UNCHANGED <<regions_, next_region_id_, current_region_size_, ptr_to_entry_, p, p_ret,
                   entries, region_shm>>

\* register_object, lines 177-181: sequence.fetch_add(1), remember the
\* pointer's slot and return.
RegisterSequence ==
    /\ p_pc = "reg_seq"
    /\ header' = [header EXCEPT !.sequence = @ + 1]
    /\ ptr_to_entry_' = (p.ptr :> p.slot) @@ ptr_to_entry_
    /\ Return("create", TRUE, p.ptr, p.slot, p.seq0)
    /\ UnchangedByObjectCalls
    /\ UNCHANGED <<regions_, next_region_id_, current_region_size_, entries, region_shm>>

(***************************************************************************)
(* destroy<T>, ObjectManager::destroy_object                               *)
(***************************************************************************)
\* The pointers a program can pass: the objects it registered, and a pointer
\* to something that never was in a region.
KnownPtrs ==
    {<<entries[i].region_id, entries[i].offset>> : i \in 0..(header.object_count - 1)}
        \cup {OutsidePtr}

\* The 8-aligned addresses of the regions, and OutsidePtr.
Addresses ==
    {<<r, SizeofRegionDescriptor + 8 * k>> : r \in 1..MaxRegionId, k \in 0..4}
        \cup {OutsidePtr}

\* A destroy_object that bumps the sequence whether or not it found the pointer.
Destroy_Unchecked(ptr) ==
    /\ p_pc = "idle"
    /\ initialized_
    /\ ptr \in KnownPtrs
    /\ IF ptr \in DOMAIN ptr_to_entry_
         THEN /\ entries' = [entries EXCEPT ![ptr_to_entry_[ptr]].state = Destroyed]
              /\ p' = [NoLocals EXCEPT !.op = "destroy", !.ptr = ptr,
                                       !.slot = ptr_to_entry_[ptr],
                                       !.seq0 = header.sequence]
              /\ p_pc' = "des_seq"
              /\ p_ret' = NoReturn
              /\ UNCHANGED header
         ELSE /\ Return("destroy", FALSE, ptr, 0 - 1, header.sequence)
              /\ header' = [header EXCEPT !.sequence = @ + 1]
              /\ UNCHANGED entries
    /\ UnchangedByObjectCalls
    /\ UNCHANGED <<regions_, next_region_id_, current_region_size_, ptr_to_entry_,
                   region_shm>>

\* A destroy_object that wipes the slot it marks Destroyed.
Destroy_ClearsSlot(ptr) ==
    /\ p_pc = "idle"
    /\ initialized_
    /\ ptr \in KnownPtrs
    /\ IF ptr \in DOMAIN ptr_to_entry_
         THEN /\ entries' = [entries EXCEPT ![ptr_to_entry_[ptr]] =
                                [ZeroObjectEntry EXCEPT !.state = Destroyed]]
              /\ p' = [NoLocals EXCEPT !.op = "destroy", !.ptr = ptr,
                                       !.slot = ptr_to_entry_[ptr],
                                       !.seq0 = header.sequence]
              /\ p_pc' = "des_seq"
              /\ p_ret' = NoReturn
         ELSE /\ Return("destroy", FALSE, ptr, 0 - 1, header.sequence)
              /\ UNCHANGED entries
    /\ UnchangedByObjectCalls
    /\ UNCHANGED <<regions_, next_region_id_, current_region_size_, ptr_to_entry_,
                   header, region_shm>>

\* destroy_object, lines 187-190: a pointer found in ptr_to_entry_ has its
\* slot's state stored as Destroyed; any other pointer changes nothing.
Destroy(ptr) ==
    /\ p_pc = "idle"
    /\ initialized_
    /\ ptr \in KnownPtrs
    /\ IF ptr \in DOMAIN ptr_to_entry_
         THEN /\ entries' = [entries EXCEPT ![ptr_to_entry_[ptr]].state = Destroyed]
              /\ p' = [NoLocals EXCEPT !.op = "destroy", !.ptr = ptr,
                                       !.slot = ptr_to_entry_[ptr],
                                       !.seq0 = header.sequence]
              /\ p_pc' = "des_seq"
              /\ p_ret' = NoReturn
         ELSE /\ Return("destroy", FALSE, ptr, 0 - 1, header.sequence)
              /\ UNCHANGED entries
    /\ UnchangedByObjectCalls
    /\ UNCHANGED <<regions_, next_region_id_, current_region_size_, ptr_to_entry_,
                   header, region_shm>>

\* destroy_object, lines 191-192: sequence.fetch_add(1), forget the pointer.
DestroySequence ==
    /\ p_pc = "des_seq"
    /\ header' = [header EXCEPT !.sequence = @ + 1]
    /\ ptr_to_entry_' = [q \in DOMAIN ptr_to_entry_ \ {p.ptr} |-> ptr_to_entry_[q]]
    /\ Return("destroy", TRUE, p.ptr, p.slot, p.seq0)
    /\ UnchangedByObjectCalls
    /\ UNCHANGED <<regions_, next_region_id_, current_region_size_, entries, region_shm>>

(***************************************************************************)
(* Observer                                                                *)
(***************************************************************************)
ZeroFieldEntry ==
    [offset |-> 0, size |-> 0, type_id |-> 0, flags |-> 0, array_size |-> 0,
     atomicity |-> "None", name |-> ""]

\* field_entries[k] as load_types reads it (k counts from 0): a written
\* entry, or the zeroed memory behind the written ones.
FieldEntryAt(k) ==
    IF k < Len(field_entries) THEN field_entries[k + 1] ELSE ZeroFieldEntry

\* Observer::load_types: the new value of types_.
load_types ==
    [i \in 1..header.type_count |->
        LET te == type_entries[i]
            field_start == (te.fields_offset - header.field_entries_offset) \div SizeofFieldEntry
        IN  [type_id |-> te.type_id, name |-> te.name, size |-> te.size,
             alignment |-> te.alignment,
             fields |-> [j \in 1..te.field_count |-> FieldEntryAt(field_start + j - 1)]]]

\* Observer::load_regions: the walk from region_id on, given the ids mapped so
\* far.  A segment that cannot be opened ends the walk.
RECURSIVE load_regions(_, _)
load_regions(region_id, mapped) ==
    IF region_id = 0 THEN mapped
    ELSE IF region_id \in mapped
      THEN load_regions(region_shm[region_id].next_region_id, mapped)
    ELSE IF region_id \notin DOMAIN region_shm \/ region_shm[region_id].magic # REGION_MAGIC
      THEN mapped
    ELSE load_regions(region_shm[region_id].next_region_id, mapped \cup {region_id})

\* A walk that opens every region of the chain, mapped already or not.
RECURSIVE opened_regions_All(_, _)
opened_regions_All(region_id, mapped) ==
    IF region_id = 0 \/ region_id \notin DOMAIN region_shm THEN {}
    ELSE {region_id} \cup opened_regions_All(region_shm[region_id].next_region_id, mapped)

\* The same walk of load_regions: the ids of the segments it opens and maps
\* (shm.open, lines 314-327), given the ids mapped before.
RECURSIVE opened_regions(_, _)
opened_regions(region_id, mapped) ==
    IF region_id = 0 THEN {}
    ELSE IF region_id \in mapped
      THEN opened_regions(region_shm[region_id].next_region_id, mapped)
    ELSE IF region_id \notin DOMAIN region_shm \/ region_shm[region_id].magic # REGION_MAGIC
      THEN {}
    ELSE {region_id} \cup opened_regions(region_shm[region_id].next_region_id,
                                        mapped \cup {region_id})

\* The segments a refresh opens (history kept in the call's result).
refresh_opened ==
    IF header.sequence # last_sequence_
      THEN opened_regions(header.first_region_id, region_shms_)
      ELSE {}

\* Observer::refresh, lines 159-164, as the changes it makes.
refresh ==
    IF header.sequence # last_sequence_
      THEN /\ types_' = load_types
           /\ region_shms_' = load_regions(header.first_region_id, region_shms_)
           /\ last_sequence_' = header.sequence
      ELSE UNCHANGED <<types_, region_shms_, last_sequence_>>

Result(op) == [NoResult EXCEPT !.op = op]


\* Observer::connect without the test of the protocol version.
Connect_AnyVersion ==
    /\ IF connected_
         THEN /\ o_ret' = [Result("connect") EXCEPT !.valid = TRUE]
              /\ UNCHANGED <<connected_, types_, region_shms_, last_sequence_>>
         ELSE IF ~header_shm \/ header.magic # HEADER_MAGIC
           THEN /\ o_ret' = Result("connect")
                /\ UNCHANGED <<connected_, types_, region_shms_, last_sequence_>>
           ELSE /\ connected_' = TRUE
                /\ refresh
                /\ o_ret' = [Result("connect") EXCEPT !.valid = TRUE,
                                                      !.opened = refresh_opened]
    /\ UNCHANGED <<notMainVars, regVars, prodVars, shmVars>>

\* Observer::connect: open the header segment, check magic and version,
\* then refresh.
Connect ==
    /\ IF connected_
         THEN /\ o_ret' = [Result("connect") EXCEPT !.valid = TRUE]
              /\ UNCHANGED <<connected_, types_, region_shms_, last_sequence_>>
         ELSE IF ~header_shm \/ header.magic # HEADER_MAGIC \/ header.version # PROTOCOL_VERSION
           THEN /\ o_ret' = Result("connect")
                /\ UNCHANGED <<connected_, types_, region_shms_, last_sequence_>>
           ELSE /\ connected_' = TRUE
                /\ refresh
                /\ o_ret' = [Result("connect") EXCEPT !.valid = TRUE,
                                                      !.opened = refresh_opened]
    /\ UNCHANGED <<notMainVars, regVars, prodVars, shmVars>>

\* Observer::disconnect; returns at once when not connected.
Disconnect ==
    /\ IF ~connected_
         THEN UNCHANGED <<region_shms_, types_, connected_>>
         ELSE /\ region_shms_' = {}
              /\ types_' = <<>>
              /\ connected_' = FALSE
    /\ o_ret' = Result("disconnect")
    /\ UNCHANGED <<notMainVars, regVars, prodVars, shmVars, last_sequence_>>

\* Observer::refresh; returns at once when not connected.
Refresh ==
    /\ IF ~connected_
         THEN /\ UNCHANGED <<types_, region_shms_, last_sequence_>>
              /\ o_ret' = Result("refresh")
         ELSE /\ refresh
              /\ o_ret' = [Result("refresh") EXCEPT !.opened = refresh_opened]
    /\ UNCHANGED <<notMainVars, regVars, prodVars, shmVars, connected_>>

\* Another program leaves a segment under the header's name whose first
\* bytes are not this protocol's magic, or a header of another version.
ForeignHeader(magic, version) ==
    /\ p_pc = "idle" /\ ~initialized_ /\ ~header_shm /\ ~connected_
    /\ header_shm' = TRUE
    /\ header' = [ZeroHeader EXCEPT !.magic = magic, !.version = version]
    /\ o_ret' = NoResult
    /\ UNCHANGED <<notMainVars, regVars, prodVars, type_entries, field_entries, entries,
                   region_shm, connected_, last_sequence_, types_, region_shms_>>

\* A scan that does not look at the state of the entries.
AliveBelow_All(count) == [n \in 1..count |-> n - 1]

\* The loop of Observer::objects and Observer::find: the indexes below
\* object_count whose entry is Alive.
RECURSIVE AliveBelow(_)
AliveBelow(count) ==
    IF count = 0 THEN <<>>
    ELSE IF entries[count - 1].state # Alive
      THEN AliveBelow(count - 1)
      ELSE Append(AliveBelow(count - 1), count - 1)

\* The ObservedObject built from entry i.  (slot is history: the index.)
ObservedObject(i) ==
    [slot |-> i, label |-> entries[i].label, type_id |-> entries[i].type_id,
     region_id |-> entries[i].region_id, offset |-> entries[i].offset,
     generation |-> entries[i].generation, state |-> entries[i].state]

\* Observer::get_object_data: null when the region is not mapped; an
\* ObjectView is valid when its data pointer is not null.
get_object_data(region_id) == region_id \in region_shms_

\* Observer::objects(): the list returned.
objects ==
    IF ~connected_ THEN <<>>
    ELSE LET alive == AliveBelow(header.object_count)
         IN  [n \in 1..Len(alive) |-> ObservedObject(alive[n])]

\* Observer::find(label): the view returned, built from the first Alive
\* entry with the label; ObjectView() when there is none.
find(label) ==
    IF ~connected_ THEN [Result("find") EXCEPT !.label = label]
    ELSE LET alive == AliveBelow(header.object_count)
             match == {n \in 1..Len(alive) : entries[alive[n]].label = label}
         IN  IF match = {} THEN [Result("find") EXCEPT !.label = label]
             ELSE LET i == alive[CHOOSE n \in match : \A m \in match : n <= m]
                  IN  [Result("find") EXCEPT
                         !.label = label, !.slot = i,
                         !.region_id = entries[i].region_id,
                         !.offset = entries[i].offset,
                         !.valid = get_object_data(entries[i].region_id)]

\* The observer calls objects().
Objects ==
    /\ o_ret' = [Result("objects") EXCEPT !.list = objects]
    /\ UNCHANGED <<notMainVars, regVars, prodVars, shmVars,
                   connected_, last_sequence_, types_, region_shms_>>

\* The observer calls find(label).
Find(label) ==
    /\ o_ret' = find(label)
    /\ UNCHANGED <<notMainVars, regVars, prodVars, shmVars,
                   connected_, last_sequence_, types_, region_shms_>>

(***************************************************************************)
(* The producer session and its observer                                   *)
(***************************************************************************)
(***************************************************************************)
(* Fields of one object read through an ObjectView                         *)
(***************************************************************************)
\* The object is an Ab; the view's type_ holds Ab's field entries.
ViewFields == TypeDescriptor["Ab"].fields
FieldNames == {ViewFields[i].name : i \in 1..Len(ViewFields)}

\* ObjectView::find_field: the first field of the type with this name.
find_field(name) ==
    LET hits == {i \in 1..Len(ViewFields) : ViewFields[i].name = name}
    IN  ViewFields[CHOOSE i \in hits : \A j \in hits : i <= j]

\* The memory of a scalar field, from data_ + offset: an 8-byte scalar is two
\* machine words for a plain access that the build splits.
FieldUnits(fe) == {fe.offset, fe.offset + fe.size \div 2}
ObjectUnits == UNION {FieldUnits(find_field(n)) : n \in FieldNames}

\* The scalar held in the field's memory, low word then high word.
Scalar(mem, fe) == <<mem[fe.offset], mem[fe.offset + fe.size \div 2]>>

FieldIdle ==
    /\ f_mem = [u \in ObjectUnits |-> 0]
    /\ f_pc = "idle" /\ f_field = "x" /\ f_k = 0 /\ f_pending = {}
    /\ f_begun = [n \in FieldNames |-> 0]
    /\ f_stored = [n \in FieldNames |-> 0]
    /\ v_pc = "idle" /\ v_field = "x" /\ v_left = {}
    /\ v_val = [u \in ObjectUnits |-> 0]
    /\ v_out = <<0, 0>> /\ v_floor = 0 /\ v_raced = FALSE

\* history: a producer store to the field being read takes effect during the read
Raced(name) == v_raced \/ (v_pc = "loading" /\ v_field = name)

\* Producer: store k to a std::atomic member (release store), one access.
FieldStoreAtomic(name, k) ==
    LET fe == find_field(name) IN
    /\ f_pc = "idle"
    /\ fe.atomicity = "Atomic"
    /\ k = f_begun[name] + 1
    /\ k <= MaxStores
    /\ f_mem' = [u \in ObjectUnits |-> IF u \in FieldUnits(fe) THEN k ELSE f_mem[u]]
    /\ f_begun' = [f_begun EXCEPT ![name] = k]
    /\ f_stored' = [f_stored EXCEPT ![name] = k]
    /\ f_field' = name /\ f_k' = k
    /\ v_raced' = Raced(name)
    /\ UNCHANGED <<f_pc, f_pending, v_pc, v_field, v_left, v_val, v_out, v_floor>>
    /\ UNCHANGED notFieldVars

\* Producer: obj->y = k on a plain member; the words are written one by one.
FieldStoreBegin(name, k) ==
    LET fe == find_field(name) IN
    /\ f_pc = "idle"
    /\ fe.atomicity = "None"
    /\ k = f_begun[name] + 1
    /\ k <= MaxStores
    /\ f_pc' = "storing"
    /\ f_field' = name /\ f_k' = k
    /\ f_pending' = FieldUnits(fe)
    /\ f_begun' = [f_begun EXCEPT ![name] = k]
    /\ v_raced' = Raced(name)
    /\ UNCHANGED <<f_mem, f_stored, v_pc, v_field, v_left, v_val, v_out, v_floor>>
    /\ UNCHANGED notFieldVars

FieldStoreUnit(u) ==
    /\ f_pc = "storing"
    /\ u \in f_pending
    /\ f_mem' = [f_mem EXCEPT ![u] = f_k]
    /\ f_pending' = f_pending \ {u}
    /\ IF f_pending' = {}
         THEN /\ f_pc' = "idle"
              /\ f_stored' = [f_stored EXCEPT ![f_field] = f_k]
         ELSE UNCHANGED <<f_pc, f_stored>>
    /\ v_raced' = Raced(f_field)
    /\ UNCHANGED <<f_field, f_k, f_begun, v_pc, v_field, v_left, v_val, v_out, v_floor>>
    /\ UNCHANGED notFieldVars

\* A FieldProxy::read that takes every field for a plain one.
FieldReadIsAtomic_Never(fe) == FALSE

\* FieldProxy::read: the switch on field_->atomicity.
FieldReadIsAtomic(fe) == fe.atomicity = "Atomic"

\* Observer: view[name].read<T>() on a valid view, up to the dispatch.
FieldRead(name) ==
    /\ v_pc \in {"idle", "done"}
    /\ v_pc' = "loading"
    /\ v_field' = name
    /\ v_left' = FieldUnits(find_field(name))
    /\ v_floor' = f_stored[name]
    /\ v_raced' = (f_pc = "storing" /\ f_field = name)
    /\ UNCHANGED <<f_mem, f_pc, f_field, f_k, f_pending, f_begun, f_stored,
                   v_val, v_out>>
    /\ UNCHANGED notFieldVars

\* read_atomic: one acquire load of the whole scalar.
FieldLoadAtomic ==
    LET fe == find_field(v_field) IN
    /\ v_pc = "loading"
    /\ FieldReadIsAtomic(fe)
    /\ v_out' = Scalar(f_mem, fe)
    /\ v_left' = {}
    /\ v_pc' = "done"
    /\ UNCHANGED <<f_mem, f_pc, f_field, f_k, f_pending, f_begun, f_stored,
                   v_field, v_val, v_floor, v_raced>>
    /\ UNCHANGED notFieldVars

\* read_direct: a plain load, word by word.
FieldLoadUnit(u) ==
    LET fe == find_field(v_field) IN
    /\ v_pc = "loading"
    /\ ~FieldReadIsAtomic(fe)
    /\ u \in v_left
    /\ v_val' = [v_val EXCEPT ![u] = f_mem[u]]
    /\ v_left' = v_left \ {u}
    /\ IF v_left' = {}
         THEN v_pc' = "done" /\ v_out' = Scalar(v_val', fe)
         ELSE UNCHANGED <<v_pc, v_out>>
    /\ UNCHANGED <<f_mem, f_pc, f_field, f_k, f_pending, f_begun, f_stored,
                   v_field, v_floor, v_raced>>
    /\ UNCHANGED notFieldVars

(***************************************************************************)
(* ObjectView::operator[], FieldProxy::operator[]                          *)
(***************************************************************************)
\* The types the observer has loaded for the object viewed, as the generator
\* describes
\*   struct M { int64_t c; int64_t d; };
\*   struct N { int64_t f; M b; };
\*   struct S { int64_t p; N a; int64_t arr[4]; };
\* with each nested member listed and its members listed flattened.  A name
\* is the sequence of its parts between the dots.
NestedField(name, offset, size, type_id, flags, array_size) ==
    [name |-> name, offset |-> offset, size |-> size, type_id |-> type_id,
     flags |-> flags, array_size |-> array_size, atomicity |-> "None"]
ViewTypes ==
    [S |-> [type_id |-> UserTypeBase + 1,
            fields |-> << NestedField(<<"p">>, 0, 8, Int64, 0, 0),
                          NestedField(<<"a">>, 8, 24, UserTypeBase + 2, IsNested, 0),
                          NestedField(<<"a", "f">>, 8, 8, Int64, 0, 0),
                          NestedField(<<"a", "b">>, 16, 16, UserTypeBase + 3, IsNested, 0),
                          NestedField(<<"a", "b", "c">>, 16, 8, Int64, 0, 0),
                          NestedField(<<"a", "b", "d">>, 24, 8, Int64, 0, 0),
                          NestedField(<<"arr">>, 32, 32, Int64, IsArray, 4) >>],
     N |-> [type_id |-> UserTypeBase + 2,
            fields |-> << NestedField(<<"f">>, 0, 8, Int64, 0, 0),
                          NestedField(<<"b">>, 8, 16, UserTypeBase + 3, IsNested, 0),
                          NestedField(<<"b", "c">>, 8, 8, Int64, 0, 0),
                          NestedField(<<"b", "d">>, 16, 8, Int64, 0, 0) >>],
     M |-> [type_id |-> UserTypeBase + 3,
            fields |-> << NestedField(<<"c">>, 0, 8, Int64, 0, 0),
                          NestedField(<<"d">>, 8, 8, Int64, 0, 0) >>]]

\* FieldProxy(obj, nullptr, nullptr); base is history: the address the
\* field was found at by name.
NullProxy == [valid |-> FALSE, type |-> "", idx |-> 0, data |-> 0, base |-> 0]

\* *field_ of a valid proxy
FieldOf(proxy) == ViewTypes[proxy.type].fields[proxy.idx]

\* The loop over the fields of a type: the proxy for the first field with
\* this name, its data at data + offset; a null proxy when there is none.
FirstField(type, name, data) ==
    LET fields == ViewTypes[type].fields
        hits == {i \in 1..Len(fields) : fields[i].name = name}
    IN  IF hits = {} THEN NullProxy
        ELSE LET i == CHOOSE i \in hits : \A j \in hits : i <= j
             IN  [valid |-> TRUE, type |-> type, idx |-> i,
                  data |-> data + fields[i].offset, base |-> data + fields[i].offset]

\* FieldProxy::operator[](name) that forgets the offset of the inner field.
ProxyName_NoOffset(proxy, name) ==
    IF ~proxy.valid THEN NullProxy
    ELSE LET nested == {t \in DOMAIN ViewTypes : ViewTypes[t].type_id = FieldOf(proxy).type_id}
         IN  IF nested = {} THEN NullProxy
             ELSE LET q == FirstField(CHOOSE t \in nested : TRUE, name, proxy.data)
                  IN  [q EXCEPT !.data = proxy.data, !.base = proxy.data]

\* FieldProxy::operator[](std::string_view name)
ProxyName(proxy, name) ==
    IF ~proxy.valid THEN NullProxy
    ELSE LET nested == {t \in DOMAIN ViewTypes : ViewTypes[t].type_id = FieldOf(proxy).type_id}
         IN  IF nested = {} THEN NullProxy
             ELSE FirstField(CHOOSE t \in nested : TRUE, name, proxy.data)

\* ObjectView::operator[](field_name) of a view of an S at data_ = 0: the
\* exact name first, then the part before the first dot and the rest.
RECURSIVE ViewName(_)
ViewName(name) ==
    LET exact == FirstField("S", name, 0)
    IN  IF exact.valid THEN exact
        ELSE IF Len(name) > 1
               THEN ProxyName(ViewName(<<Head(name)>>), Tail(name))
               ELSE NullProxy

\* FieldProxy::operator[](size_t index)
ProxyIndex(proxy, index) ==
    IF ~proxy.valid THEN NullProxy
    ELSE LET field == FieldOf(proxy)
         IN  IF BitAnd(field.flags, IsArray) = 0 THEN NullProxy
             ELSE IF index >= field.array_size THEN NullProxy
             ELSE [proxy EXCEPT !.data = proxy.data + index * (field.size \div field.array_size)]

\* FieldProxy::read<int64_t>(), lines 54-57, of an object whose eight bytes
\* at offset k hold k + 1: T{} from a null proxy.
ProxyRead(proxy) == IF ~proxy.valid THEN 0 ELSE proxy.data + 1

\* The names and indices a program asks for.
LookupNames ==
    {<<"p">>, <<"a">>, <<"f">>, <<"b">>, <<"c">>, <<"arr">>, <<"zz">>, <<"">>,
     <<"a", "f">>, <<"a", "b">>, <<"b", "c">>, <<"a", "b", "c">>, <<"a", "b", "d">>,
     <<"a", "zz">>, <<"p", "f">>, <<"a", "", "f">>}
MaxChain == 3
MaxIndex == 4
NoName == <<>>
NoIndex == 0 - 1

LookupIdle == fp = NullProxy /\ fp_path = <<>>

\* view[name]
ViewLookup(name) ==
    /\ fp' = ViewName(name)
    /\ fp_path' = << [name |-> name, index |-> NoIndex] >>
    /\ UNCHANGED notLookupVars

\* proxy[name] on the proxy obtained last
ProxyLookup(name) ==
    /\ fp_path # <<>> /\ Len(fp_path) < MaxChain
    /\ fp' = ProxyName(fp, name)
    /\ fp_path' = Append(fp_path, [name |-> name, index |-> NoIndex])
    /\ UNCHANGED notLookupVars

\* proxy[index] on the proxy obtained last
ProxyElement(index) ==
    /\ fp_path # <<>> /\ Len(fp_path) < MaxChain
    /\ fp' = ProxyIndex(fp, index)
    /\ fp_path' = Append(fp_path, [name |-> NoName, index |-> index])
    /\ UNCHANGED notLookupVars

(***************************************************************************)
(* detail::SharedMemory                                                    *)
(***************************************************************************)
\* handles of the program, names they use, segments the system may create
NHandles == 3
MaxSegments == 2
Handles == 1..NHandles
ShmNames == {"/s"}

\* SharedMemory(): data_ = nullptr, is_owner_ = false, no name
NoHandle == [data |-> 0, is_owner |-> FALSE, name |-> ""]

HandlesIdle ==
    /\ shm_handles = [h \in Handles |-> NoHandle]
    /\ shm_names = [n \in ShmNames |-> 0]
    /\ shm_next = 1

\* SharedMemory::close: the handle afterwards (name_ stays) and the names
\* afterwards: shm_unlink(name_) when is_owner_.
Closed(handle) == [handle EXCEPT !.data = 0, !.is_owner = FALSE]
NamesAfterClose(handle, names) ==
    IF handle.is_owner /\ handle.name # ""
      THEN [names EXCEPT ![handle.name] = 0]
      ELSE names

\* SharedMemory::create(name, size).  The handle is closed first when it
\* maps something.  shm_open(O_CREAT | O_EXCL) makes a new segment, or
\* fails for a name that exists, and then the existing one is opened.
\* sized_ok: ftruncate and mmap succeed; otherwise the name is unlinked.
ShmCreate(h, name, sized_ok) ==
    LET first == shm_handles[h]
        names0 == IF first.data # 0 THEN NamesAfterClose(first, shm_names) ELSE shm_names
        start == IF first.data # 0 THEN Closed(first) ELSE first
        fresh == names0[name] = 0
        segment == IF fresh THEN shm_next ELSE names0[name]
    IN  /\ fresh => shm_next <= MaxSegments
        /\ shm_next' = IF fresh THEN shm_next + 1 ELSE shm_next
        /\ IF sized_ok
             THEN /\ shm_handles' = [shm_handles EXCEPT ![h] =
                         [data |-> segment, is_owner |-> TRUE, name |-> name]]
                  /\ shm_names' = [names0 EXCEPT ![name] = segment]
             ELSE /\ shm_handles' = [shm_handles EXCEPT ![h] = [start EXCEPT !.name = name]]
                  /\ shm_names' = [names0 EXCEPT ![name] = 0]
        /\ UNCHANGED notHandleVars

\* SharedMemory::open(name); mapped_ok: fstat and mmap succeed.
ShmOpen(h, name, mapped_ok) ==
    LET first == shm_handles[h]
        names0 == IF first.data # 0 THEN NamesAfterClose(first, shm_names) ELSE shm_names
        start == IF first.data # 0 THEN Closed(first) ELSE first
    IN  /\ shm_names' = names0
        /\ shm_handles' = [shm_handles EXCEPT ![h] =
              IF names0[name] = 0 \/ ~mapped_ok
                THEN [start EXCEPT !.name = name]
                ELSE [data |-> names0[name], is_owner |-> FALSE, name |-> name]]
        /\ UNCHANGED shm_next
        /\ UNCHANGED notHandleVars

\* SharedMemory::close(), also ~SharedMemory()
ShmClose(h) ==
    /\ shm_handles' = [shm_handles EXCEPT ![h] = Closed(shm_handles[h])]
    /\ shm_names' = NamesAfterClose(shm_handles[h], shm_names)
    /\ UNCHANGED shm_next
    /\ UNCHANGED notHandleVars

\* SharedMemory(SharedMemory&& other): handle h is constructed from other.
ShmMoveConstruct(h, other) ==
    /\ h # other
    /\ shm_handles[h] = NoHandle
    /\ shm_handles' = [shm_handles EXCEPT ![h] = shm_handles[other], ![other] = NoHandle]
    /\ UNCHANGED <<shm_names, shm_next>>
    /\ UNCHANGED notHandleVars

\* operator=(SharedMemory&& other): nothing for h = other; else close(),
\* take the members of other and reset them there.
ShmMoveAssign(h, other) ==
    /\ IF h = other
         THEN UNCHANGED <<shm_handles, shm_names>>
         ELSE /\ shm_handles' = [shm_handles EXCEPT ![h] = shm_handles[other],
                                                   ![other] = NoHandle]
              /\ shm_names' = NamesAfterClose(shm_handles[h], shm_names)
    /\ UNCHANGED shm_next
    /\ UNCHANGED notHandleVars

(***************************************************************************)
(* memglass::init, memglass::shutdown                                      *)
(***************************************************************************)
\* memglass::init that replaces the session in place of refusing.
init_Replaces(cfg, header_ok, region_ok) ==
    IF initialized_
      THEN /\ p_pc = "idle"
           /\ p_ret' = [NoReturn EXCEPT !.op = "init", !.ok = TRUE]
           /\ NoObserverCall
           /\ UNCHANGED <<notMainVars, regVars, shmVars, initialized_, config_, regions_,
                          next_region_id_, current_region_size_, ptr_to_entry_, p_pc, p>>
      ELSE ContextInit(cfg, header_ok, region_ok)

\* memglass::init(session, cfg): refused while the process has a Context;
\* otherwise a new Context is initialized, and deleted again when that fails.
init(cfg, header_ok, region_ok) ==
    IF initialized_
      THEN /\ p_pc = "idle"
           /\ p_ret' = [NoReturn EXCEPT !.op = "init"]
           /\ NoObserverCall
           /\ UNCHANGED <<notMainVars, regVars, shmVars, initialized_, config_, regions_,
                          next_region_id_, current_region_size_, ptr_to_entry_, p_pc, p>>
      ELSE ContextInit(cfg, header_ok, region_ok)

\* memglass::shutdown that leaves the Context in place.
Shutdown_KeepsSession ==
    /\ p_pc = "idle"
    /\ p_ret' = [NoReturn EXCEPT !.op = "shutdown", !.ok = TRUE]
    /\ NoObserverCall
    /\ UNCHANGED <<notMainVars, regVars, shmVars, initialized_, config_, regions_,
                   next_region_id_, current_region_size_, ptr_to_entry_, p_pc, p>>

\* memglass::shutdown that closes no segment.
Shutdown_KeepsNames ==
    /\ p_pc = "idle"
    /\ p_ret' = [NoReturn EXCEPT !.op = "shutdown", !.ok = TRUE]
    /\ NoObserverCall
    /\ IF ~initialized_
         THEN UNCHANGED <<initialized_, config_, regions_, next_region_id_,
                          current_region_size_, ptr_to_entry_>>
         ELSE /\ initialized_' = FALSE
              /\ config_' = NoConfig
              /\ regions_' = <<>>
              /\ next_region_id_' = 1
              /\ current_region_size_' = 0
              /\ ptr_to_entry_' = <<>>
    /\ UNCHANGED <<notMainVars, regVars, shmVars, p_pc, p>>

\* memglass::shutdown: with a Context, the Context is deleted: its object
\* and region managers go, every region segment and the header segment is
\* closed by its owner, which unlinks the name (SharedMemory::close).  The
\* bytes stay as they are for whoever still has them mapped.
Shutdown ==
    /\ p_pc = "idle"
    /\ p_ret' = [NoReturn EXCEPT !.op = "shutdown", !.ok = TRUE]
    /\ NoObserverCall
    /\ IF ~initialized_
         THEN UNCHANGED <<initialized_, config_, regions_, next_region_id_,
                          current_region_size_, ptr_to_entry_, header_shm, region_shm>>
         ELSE /\ initialized_' = FALSE
              /\ config_' = NoConfig
              /\ regions_' = <<>>
              /\ next_region_id_' = 1
              /\ current_region_size_' = 0
              /\ ptr_to_entry_' = <<>>
              /\ header_shm' = FALSE
              /\ region_shm' = <<>>
    /\ UNCHANGED <<notMainVars, regVars, header, type_entries, field_entries, entries,
                   p_pc, p>>

MainInit ==
    /\ g_types = <<>> /\ g_name_to_id = <<>>
    /\ initialized_ = FALSE /\ config_ = NoConfig
    /\ regions_ = <<>> /\ next_region_id_ = 1 /\ current_region_size_ = 0
    /\ ptr_to_entry_ = <<>>
    /\ p_pc = "idle" /\ p = NoLocals /\ p_ret = NoReturn
    /\ header_shm = FALSE /\ header = ZeroHeader
    /\ type_entries = <<>> /\ field_entries = <<>> /\ entries = <<>>
    /\ region_shm = <<>>
    /\ connected_ = FALSE /\ last_sequence_ = 0 /\ types_ = <<>>
    /\ region_shms_ = {} /\ o_ret = NoResult

(***************************************************************************)
(* memglass-diff: varints of the binary format                             *)
(*                                                                         *)
(* A uint64_t is the set of the positions of its one bits (bit 0 is the    *)
(* least significant); an int64_t is its two's complement pattern.  A byte *)
(* of a stream is a number in 0..255.                                      *)
(***************************************************************************)
U64Bits == 64
BitPositions == 0..(U64Bits - 1)

DiffIdle == d_op = "none" /\ d_in = <<>> /\ d_out = <<>>

\* v >> n, v << n on a uint64_t, a ^ b
Shr(v, n) == {i - n : i \in {j \in v : j >= n}}
Shl(v, n) == {i + n : i \in {j \in v : j + n < U64Bits}}
Xor(a, b) == (a \ b) \cup (b \ a)

\* the number with the given bits set (below 2^31), and the bits of a byte
RECURSIVE ValueOf(_)
ValueOf(bits) ==
    IF bits = {} THEN 0
    ELSE LET i == CHOOSE j \in bits : TRUE IN 2^i + ValueOf(bits \ {i})
BitsOf(byte) == {i \in 0..7 : (byte \div 2^i) % 2 = 1}

\* BinaryWriter::write_varint: LEB128, seven bits a byte, low bits first.
RECURSIVE write_varint(_)
write_varint(v) ==
    IF \E i \in v : i >= 7
      THEN <<ValueOf((v \cap 0..6) \cup {7})>> \o write_varint(Shr(v, 7))
      ELSE <<ValueOf(v)>>

\* BinaryWriter::write_varint_signed: (uint64_t(v) << 1) ^ (v >> 63), the
\* right shift being arithmetic.
write_varint_signed(v) ==
    write_varint(Xor(Shl(v, 1), IF (U64Bits - 1) \in v THEN BitPositions ELSE {}))

\* BinaryReader::read_u8: in_.get() returns EOF past the end, cast to 0xFF.
read_u8(stream, pos) == IF pos > Len(stream) THEN 255 ELSE stream[pos]

\* BinaryReader::read_varint from position pos of the stream: the value and
\* the position after it.  A shift of 64 or more is undefined behaviour; a
\* varint cut short by the end of the stream always runs into it.
RECURSIVE read_varint_loop(_, _, _, _)
read_varint_loop(stream, pos, result, shift) ==
    IF shift >= U64Bits
      THEN [defined |-> FALSE, value |-> {}, pos |-> pos]
      ELSE LET b == BitsOf(read_u8(stream, pos))
               result1 == result \cup Shl(b \cap 0..6, shift)
           IN  IF 7 \notin b
                 THEN [defined |-> TRUE, value |-> result1, pos |-> pos + 1]
                 ELSE read_varint_loop(stream, pos + 1, result1, shift + 7)
read_varint(stream, pos) == read_varint_loop(stream, pos, {}, 0)

\* A read_varint_signed that forgets the sign: encoded >> 1.
read_varint_signed_NoSign(stream, pos) ==
    LET r == read_varint(stream, pos)
    IN  [r EXCEPT !.value = Shr(r.value, 1)]

\* BinaryReader::read_varint_signed: (encoded >> 1) ^ -(encoded & 1)
read_varint_signed(stream, pos) ==
    LET r == read_varint(stream, pos)
    IN  [r EXCEPT !.value = Xor(Shr(r.value, 1),
                                IF 0 \in r.value THEN BitPositions ELSE {})]

\* The values written: 0, every power of two, every 2^(i+1) - 1; as int64_t
\* they include -1 (all bits), the minimum (bit 63) and the maximum.
VarintValues ==
    {{}} \cup {{i} : i \in BitPositions} \cup {0..i : i \in BitPositions}
\* What follows the varint in the stream.
VarintFollowers == {<<>>, <<0>>, <<255>>}

\* write_varint(v) into a stream followed by rest, then read_varint from
\* its first byte.
VarintRoundTrip(v, rest) ==
    /\ d_op = "none"
    /\ d_op' = "write_varint"
    /\ d_in' = [v |-> v, rest |-> rest]
    /\ d_out' = [bytes |-> write_varint(v),
                 read |-> read_varint(write_varint(v) \o rest, 1)]
    /\ UNCHANGED notDiffVars

VarintSignedRoundTrip(v, rest) ==
    /\ d_op = "none"
    /\ d_op' = "write_varint_signed"
    /\ d_in' = [v |-> v, rest |-> rest]
    /\ d_out' = [bytes |-> write_varint_signed(v),
                 read |-> read_varint_signed(write_varint_signed(v) \o rest, 1)]
    /\ UNCHANGED notDiffVars

VarintNext ==
    \E v \in VarintValues, rest \in VarintFollowers :
        VarintRoundTrip(v, rest) \/ VarintSignedRoundTrip(v, rest)

(***************************************************************************)
(* memglass-diff: snapshots and compute_diff                               *)
(***************************************************************************)
\* PrimitiveType tags of the values below (Int64 is defined above).
Unknown == 0
Bool == 1
Int8 == 2
Float32 == 10
Float64 == 11

\* FieldValue: the tag and the member of the union the tag selects.  An
\* integer is a number; a double is its eight bytes, lowest first.
F64One == <<0, 0, 0, 0, 0, 0, 240, 63>>
F64NaN == <<0, 0, 0, 0, 0, 0, 248, 127>>
DefaultFieldValue == [type |-> Unknown, data |-> 0]

\* is_integer_type (the same switch in the writer and in the reader)
is_integer_type(t) == t \in (1..9) \cup {12}

\* data.f64 == other.data.f64 on doubles: a NaN (exponent all ones,
\* mantissa not zero) equals nothing; +0.0 equals -0.0.
F64IsNaN(d) ==
    /\ d[8] % 128 = 127 /\ d[7] \div 16 = 15
    /\ (d[7] % 16 # 0 \/ \E i \in 1..6 : d[i] # 0)
F64IsZero(d) == d[8] % 128 = 0 /\ \A i \in 1..7 : d[i] = 0
F64Equal(a, b) ==
    /\ ~F64IsNaN(a) /\ ~F64IsNaN(b)
    /\ (a = b \/ (F64IsZero(a) /\ F64IsZero(b)))

\* FieldValue::operator==
FieldValueEquals(a, b) ==
    IF a.type # b.type THEN FALSE
    ELSE IF is_integer_type(a.type) THEN a.data = b.data
    ELSE IF a.type = Float64 THEN F64Equal(a.data, b.data)
    ELSE TRUE

\* std::map iterates its keys in order: the labels and field names in use.
LabelOrder == <<"a", "b">>
FieldOrder == <<"x", "y">>

\* compute_diff(old_snap, new_snap)
compute_diff(old_snap, new_snap) ==
    LET olds == old_snap.objects
        news == new_snap.objects
        Changed(label, field) ==
            /\ field \in DOMAIN news[label].fields
            /\ (field \in DOMAIN olds[label].fields =>
                  ~FieldValueEquals(olds[label].fields[field], news[label].fields[field]))
        ChangeOf(label, field) ==
            [object_label |-> label, field_name |-> field,
             old_value |-> IF field \in DOMAIN olds[label].fields
                             THEN olds[label].fields[field] ELSE DefaultFieldValue,
             new_value |-> news[label].fields[field]]
        ChangesIn(label) ==
            IF label \in DOMAIN news /\ label \in DOMAIN olds
              THEN LET fs == SelectSeq(FieldOrder, LAMBDA f : Changed(label, f))
                   IN  [i \in 1..Len(fs) |-> ChangeOf(label, fs[i])]
              ELSE <<>>
        RECURSIVE ChangesFrom(_)
        ChangesFrom(i) ==
            IF i > Len(LabelOrder) THEN <<>>
            ELSE ChangesIn(LabelOrder[i]) \o ChangesFrom(i + 1)
    IN  [timestamp_ns |-> new_snap.timestamp_ns,
         old_sequence |-> old_snap.sequence,
         new_sequence |-> new_snap.sequence,
         added_objects |->
             SelectSeq(LabelOrder, LAMBDA l : l \in DOMAIN news /\ l \notin DOMAIN olds),
         removed_objects |->
             SelectSeq(LabelOrder, LAMBDA l : l \in DOMAIN olds /\ l \notin DOMAIN news),
         field_changes |-> ChangesFrom(1)]

\* The snapshots compared: object "a" has a field x (an integer or a double)
\* and a field y, object "b" a field x; any of them may be missing.
SnapshotValues ==
    [x |-> {[type |-> Int64, data |-> 0], [type |-> Int64, data |-> 1],
            [type |-> Float64, data |-> F64One], [type |-> Float64, data |-> F64NaN]},
     y |-> {[type |-> Bool, data |-> 0], [type |-> Bool, data |-> 1]}]
FieldMaps(names) ==
    UNION {{f \in [S -> UNION {SnapshotValues[n] : n \in names}] :
               \A n \in S : f[n] \in SnapshotValues[n]} : S \in SUBSET names}
SnapshotObjects ==
    {oa @@ ob :
       oa \in {<<>>} \cup {[a |-> [fields |-> f]] : f \in FieldMaps({"x", "y"})},
       ob \in {<<>>} \cup {[b |-> [fields |-> f]] :
                              f \in {g \in FieldMaps({"x"}) :
                                       \A n \in DOMAIN g : g[n].type = Int64}}}
Snapshots ==
    {[timestamp_ns |-> t, sequence |-> q, objects |-> o] :
       t \in {5}, q \in {1, 2}, o \in SnapshotObjects}

ComputeDiff(old_snap, new_snap) ==
    /\ d_op = "none"
    /\ d_op' = "compute_diff"
    /\ d_in' = [old |-> old_snap, new |-> new_snap]
    /\ d_out' = compute_diff(old_snap, new_snap)
    /\ UNCHANGED notDiffVars

\* the tool's first snapshot against one taken at the same or a later sequence
DiffNext ==
    \E old_snap \in {o \in Snapshots : o.sequence = 1}, new_snap \in Snapshots :
        ComputeDiff(old_snap, new_snap)

(***************************************************************************)
(* memglass-diff: BinaryWriter                                             *)
(*                                                                         *)
(* A std::string is the sequence of its bytes.  timestamp_ns, sequence     *)
(* numbers and deltas are 64-bit patterns; the data of an integer          *)
(* FieldValue is a number of its type.                                     *)
(***************************************************************************)
\* a + b, a - b on 64-bit patterns
Add(a, b) ==
    LET RECURSIVE Go(_, _)
        Go(i, carry) ==
            IF i = U64Bits THEN {}
            ELSE LET t == (IF i \in a THEN 1 ELSE 0) + (IF i \in b THEN 1 ELSE 0) + carry
                 IN  (IF t % 2 = 1 THEN {i} ELSE {}) \cup Go(i + 1, t \div 2)
    IN  Go(0, 0)
Sub(a, b) == Add(a, Add(BitPositions \ b, {0}))

\* the 64-bit pattern of a number (sign-extended), and the number of a
\* w-bit pattern read as signed or as unsigned
ToBits(n) == {i \in BitPositions : IF i < 31 THEN (n \div 2^i) % 2 = 1 ELSE n < 0}
SignedOf(b, w) ==
    IF (w - 1) \in b THEN 0 - 1 - ValueOf((0..(w - 2)) \ b)
    ELSE ValueOf(b \cap 0..(w - 2))
UnsignedOf(b, w) == ValueOf(b \cap 0..(w - 1))

RECURSIVE Flatten(_)
Flatten(seqs) == IF seqs = <<>> THEN <<>> ELSE Head(seqs) \o Flatten(Tail(seqs))

\* FieldValue::as_int64
as_int64(v) == IF is_integer_type(v.type) THEN ToBits(v.data) ELSE {}

\* BinaryWriter::write_header: "MGDF", version 1, flags 0, two reserved bytes
write_header == <<77, 71, 68, 70, 1, 0, 0, 0>>

\* BinaryWriter::write_string
write_string(str) == write_varint(ToBits(Len(str))) \o str

\* BinaryWriter::write_raw_value (a double is eight bytes, a float four)
write_raw_value(v) ==
    IF v.type \in {Float32, Float64} THEN v.data
    ELSE write_varint_signed(as_int64(v))

\* BinaryWriter::write_diff(diff, last_timestamp)
write_diff(diff, last_timestamp) ==
    LET write_change(c) ==
            write_string(c.object_label) \o write_string(c.field_name)
              \o <<c.new_value.type % 256>>
              \o (IF is_integer_type(c.new_value.type)
                    THEN write_varint_signed(Sub(as_int64(c.new_value),
                                                 as_int64(c.old_value)))
                    ELSE write_raw_value(c.new_value))
    IN  <<1>>
          \o write_varint_signed(Sub(diff.timestamp_ns, last_timestamp))
          \o write_varint(diff.new_sequence)
          \o write_varint(ToBits(Len(diff.added_objects)))
          \o write_varint(ToBits(Len(diff.removed_objects)))
          \o write_varint(ToBits(Len(diff.field_changes)))
          \o Flatten([i \in 1..Len(diff.added_objects) |->
                         write_string(diff.added_objects[i])])
          \o Flatten([i \in 1..Len(diff.removed_objects) |->
                         write_string(diff.removed_objects[i])])
          \o Flatten([i \in 1..Len(diff.field_changes) |->
                         write_change(diff.field_changes[i])])

\* BinaryWriter::write_end
write_end == <<0>>

\* header, write_diff of each diff with the timestamp of the one before it
\* (0 before the first), end record
RECURSIVE write_diffs(_, _)
write_diffs(diffs, last_timestamp) ==
    IF diffs = <<>> THEN <<>>
    ELSE write_diff(Head(diffs), last_timestamp)
           \o write_diffs(Tail(diffs), Head(diffs).timestamp_ns)
write_file(diffs) == write_header \o write_diffs(diffs, {}) \o write_end

(***************************************************************************)
(* memglass-diff: BinaryReader and decode_binary_file                      *)
(*                                                                         *)
(* A read is a record: defined (FALSE once undefined behaviour was hit),   *)
(* the value read and the position after it.                               *)
(***************************************************************************)
Undefined == [defined |-> FALSE, value |-> <<>>, pos |-> 0]

\* in_.read(buffer, n): the bytes there are; the rest of the buffer keeps
\* what it held (zeros here)
read_bytes(stream, pos, n) ==
    [defined |-> TRUE,
     value |-> [i \in 1..n |-> IF pos + i - 1 <= Len(stream)
                                 THEN stream[pos + i - 1] ELSE 0],
     pos |-> IF pos + n <= Len(stream) THEN pos + n ELSE Len(stream) + 1]

\* What follows once a value has been read: F of the value, which is
\* evaluated once; Bind stops at a read that was undefined.
Let(v, F(_)) == CHOOSE y \in {F(x) : x \in {v}} : TRUE
Bind(r, F(_)) == CHOOSE y \in {IF x.defined THEN F(x) ELSE Undefined : x \in {r}} : TRUE

\* BinaryReader::read_string (a length of 256 or more, which no file here
\* holds, is not followed)
read_string(stream, pos) ==
    Bind(read_varint(stream, pos), LAMBDA n :
        IF n.value \subseteq 0..7
          THEN read_bytes(stream, n.pos, ValueOf(n.value))
          ELSE Undefined)

\* count calls of read_string
RECURSIVE read_strings(_, _, _)
read_strings(stream, pos, count) ==
    IF count = 0 THEN [defined |-> TRUE, value |-> <<>>, pos |-> pos]
    ELSE Bind(read_string(stream, pos), LAMBDA str :
           Bind(read_strings(stream, str.pos, count - 1), LAMBDA rest :
             [rest EXCEPT !.value = <<str.value>> \o rest.value]))

\* BinaryReader::set_int_value: val converted to the type of the value
set_int_value(type, val) ==
    CASE type = Bool -> IF val # {} THEN 1 ELSE 0
      [] type \in {2, 12} -> SignedOf(val, 8)
      [] type = 3 -> UnsignedOf(val, 8)
      [] type = 4 -> SignedOf(val, 16)
      [] type = 5 -> UnsignedOf(val, 16)
      [] type = 6 -> SignedOf(val, 32)
      [] type = 7 -> UnsignedOf(val, 32)
      [] type \in {Int64, 9} -> SignedOf(val, 64)
      [] OTHER -> 0

\* one field change of read_diff, lines 563-578
read_change(stream, pos) ==
    Bind(read_string(stream, pos), LAMBDA label :
      Bind(read_string(stream, label.pos), LAMBDA field :
        LET type == read_u8(stream, field.pos)
            after == IF field.pos > Len(stream) THEN field.pos ELSE field.pos + 1
            Change(data) ==
                [object_label |-> label.value, field_name |-> field.value,
                 old_value |-> DefaultFieldValue,
                 new_value |-> [type |-> type, data |-> data]]
        IN  IF type \in {Float32, Float64}
              THEN Let(read_bytes(stream, after, IF type = Float64 THEN 8 ELSE 4),
                       LAMBDA raw : [raw EXCEPT !.value = Change(raw.value)])
              ELSE Bind(read_varint_signed(stream, after), LAMBDA delta :
                     [delta EXCEPT !.value = Change(set_int_value(type, delta.value))])))

RECURSIVE read_changes(_, _, _)
read_changes(stream, pos, count) ==
    IF count = 0 THEN [defined |-> TRUE, value |-> <<>>, pos |-> pos]
    ELSE Bind(read_change(stream, pos), LAMBDA c :
           Bind(read_changes(stream, c.pos, count - 1), LAMBDA rest :
             [rest EXCEPT !.value = <<c.value>> \o rest.value]))

\* BinaryReader::read_header
read_header(stream) ==
    /\ read_bytes(stream, 1, 4).value = <<77, 71, 68, 70>>
    /\ read_u8(stream, 5) = 1

\* a varint read as a size_t.  A count of 256 or more is never followed by
\* that many items: the reads run past the end of the file.
read_count(stream, pos) ==
    Bind(read_varint(stream, pos), LAMBDA n :
        IF n.value \subseteq 0..7 THEN [n EXCEPT !.value = ValueOf(n.value)]
        ELSE Undefined)

\* BinaryReader::read_diff(last_timestamp): nullopt, or some diff.
read_diff(stream, pos, last_timestamp) ==
    IF pos > Len(stream) \/ stream[pos] = 0
      THEN [defined |-> TRUE, some |-> FALSE, value |-> <<>>, pos |-> pos + 1]
      ELSE
        Bind(read_varint_signed(stream, pos + 1), LAMBDA ts_delta :
        Bind(read_varint(stream, ts_delta.pos), LAMBDA new_sequence :
        Bind(read_count(stream, new_sequence.pos), LAMBDA num_added :
        Bind(read_count(stream, num_added.pos), LAMBDA num_removed :
        Bind(read_count(stream, num_removed.pos), LAMBDA num_changes :
        Bind(read_strings(stream, num_changes.pos, num_added.value), LAMBDA added :
        Bind(read_strings(stream, added.pos, num_removed.value), LAMBDA removed :
        Bind(read_changes(stream, removed.pos, num_changes.value), LAMBDA changes :
            [defined |-> TRUE, some |-> TRUE, pos |-> changes.pos,
             value |-> [timestamp_ns |-> Add(last_timestamp, ts_delta.value),
                        old_sequence |-> {},
                        new_sequence |-> new_sequence.value,
                        added_objects |-> added.value,
                        removed_objects |-> removed.value,
                        field_changes |-> changes.value]]))))))))

\* decode_binary_file: exit code 1 when read_header fails; otherwise the
\* diffs read up to the first nullopt, and exit code 0.  defined is FALSE
\* when a read_diff ran into undefined behaviour.
RECURSIVE decode_loop(_, _, _, _)
decode_loop(stream, pos, last_timestamp, diffs) ==
    Let(read_diff(stream, pos, last_timestamp), LAMBDA r :
        IF ~r.defined THEN [defined |-> FALSE, exit |-> 0, diffs |-> diffs]
        ELSE IF ~r.some THEN [defined |-> TRUE, exit |-> 0, diffs |-> diffs]
        ELSE decode_loop(stream, r.pos, r.value.timestamp_ns, Append(diffs, r.value)))
decode_binary_file(stream) ==
    IF ~read_header(stream) THEN [defined |-> TRUE, exit |-> 1, diffs |-> <<>>]
    ELSE decode_loop(stream, Len(write_header) + 1, {}, <<>>)

(***************************************************************************)
(* memglass-diff: files written and decoded                                *)
(***************************************************************************)
\* The diffs written: labels "a" and "b", field "x"; an int64_t going from
\* 100 to 105, a bool from true to false, an int8_t from -100 to 100, a
\* double from NaN to 1.0.
CodecChanges ==
    {[object_label |-> <<97>>, field_name |-> <<120>>, old_value |-> o, new_value |-> n] :
        <<o, n>> \in {<<[type |-> Int64, data |-> 100], [type |-> Int64, data |-> 105]>>,
                      <<[type |-> Bool, data |-> 1], [type |-> Bool, data |-> 0]>>,
                      <<[type |-> Int8, data |-> 0 - 100], [type |-> Int8, data |-> 100]>>,
                      <<[type |-> Float64, data |-> F64NaN],
                        [type |-> Float64, data |-> F64One]>>}}
CodecDiffs ==
    {[timestamp_ns |-> tq[1], old_sequence |-> {0}, new_sequence |-> tq[2],
      added_objects |-> ar[1], removed_objects |-> ar[2], field_changes |-> ch] :
        tq \in {<<{0}, {1}>>, <<{3, 5}, {0, 8}>>, <<{U64Bits - 1}, {0, 8}>>},
        ar \in {<<<<>>, <<>>>>, <<<<<<97>>>>, <<<<98>>, <<97, 98>>>>>>},
        ch \in {<<>>} \cup {<<c>> : c \in CodecChanges}
                 \cup {<<c, c>> : c \in {d \in CodecChanges : d.new_value.type = Int64}}}
CodecFiles ==
    {<<>>} \cup {<<d>> : d \in CodecDiffs}
      \cup {<<d, e>> : d \in CodecDiffs,
                       e \in {f \in CodecDiffs : f.field_changes = <<>>
                                                  /\ f.timestamp_ns = {3, 5}}}

\* the diffs written to a file with BinaryWriter, the file decoded
WriteAndDecode(diffs) ==
    /\ d_op = "none"
    /\ d_op' = "write_and_decode"
    /\ d_in' = diffs
    /\ d_out' = decode_binary_file(write_file(diffs))
    /\ UNCHANGED notDiffVars

\* What a file of one diff may have become before it is decoded.
Damages(file) ==
    {[kind |-> "none", at |-> 0], [kind |-> "magic", at |-> 1],
     [kind |-> "version", at |-> 5], [kind |-> "tag", at |-> Len(write_header) + 1]}
      \cup {[kind |-> "truncated", at |-> k] :
               k \in (Len(write_header) + 1)..(Len(file) - 2)}
Damaged(file, damage) ==
    CASE damage.kind = "none" -> file
      [] damage.kind = "truncated" -> SubSeq(file, 1, damage.at)
      [] damage.kind = "magic" -> [file EXCEPT ![damage.at] = 88]
      [] OTHER -> [file EXCEPT ![damage.at] = 2]

\* decode_binary_file of such a file.  Where the decoder's behaviour is
\* undefined it may exit with either code or not exit at all (NoExit).
NoExit == 0 - 1
DecodeFile(diff, damage, outcome) ==
    /\ d_op = "none"
    /\ \E file \in {Damaged(write_file(<<diff>>), damage)} :
         \E result \in {decode_binary_file(file)} :
            /\ outcome \in (IF result.defined THEN {result.exit} ELSE {0, 1, NoExit})
            /\ d_op' = "decode"
            /\ d_in' = [diff |-> diff, damage |-> damage, file |-> file]
            /\ d_out' = [exit |-> outcome, defined |-> result.defined]
    /\ UNCHANGED notDiffVars

(***************************************************************************)
(* memglass-diff: run_diff, the recording loop                             *)
(***************************************************************************)
\* The bytes of the labels and field names in use.
StringBytes(str) ==
    CASE str = "a" -> <<97>> [] str = "b" -> <<98>>
      [] str = "x" -> <<120>> [] OTHER -> <<121>>

\* A diff of compute_diff with its strings as bytes.
DiffBytes(diff) ==
    [diff EXCEPT
       !.added_objects = [i \in 1..Len(@) |-> StringBytes(@[i])],
       !.removed_objects = [i \in 1..Len(@) |-> StringBytes(@[i])],
       !.field_changes =
           [i \in 1..Len(@) |->
               [@[i] EXCEPT !.object_label = StringBytes(@),
                            !.field_name = StringBytes(@)]]]

\* SnapshotDiff::empty
empty(diff) ==
    diff.added_objects = <<>> /\ diff.removed_objects = <<>> /\ diff.field_changes = <<>>

\* The loop of run_diff, lines 846-876, over the snapshots that
\* take_snapshot returns one after the other: the records written, and (as
\* history) the diffs they were written for.
RECURSIVE diff_loop(_, _, _, _)
diff_loop(prev_snap, last_timestamp, snaps, skip_empty) ==
    IF snaps = <<>> THEN [bytes |-> <<>>, written |-> <<>>]
    ELSE LET new_snap == Head(snaps)
             diff == DiffBytes(compute_diff(prev_snap, new_snap))
             rest == diff_loop(new_snap, new_snap.timestamp_ns, Tail(snaps), skip_empty)
         IN  IF ~empty(diff) \/ ~skip_empty
               THEN [bytes |-> write_diff(diff, last_timestamp) \o rest.bytes,
                     written |-> <<diff>> \o rest.written]
               ELSE rest

\* run_diff with the binary format, lines 832-880: header, the loop started
\* from the initial snapshot and its timestamp, end record.
run_diff(snaps, skip_empty) ==
    LET loop == diff_loop(Head(snaps), Head(snaps).timestamp_ns, Tail(snaps), skip_empty)
    IN  [file |-> write_header \o loop.bytes \o write_end, written |-> loop.written]

\* The recordings: three snapshots five ticks apart, the first taken at
\* time 0 or at time 100; object "a" is missing or has x = 0 or x = 1.
RecordedObjects ==
    {<<>>} \cup {[a |-> [fields |-> [x |-> [type |-> Int64, data |-> v]]]] : v \in {0, 1}}
RecordedSnapshots ==
    {[i \in 1..3 |-> [timestamp_ns |-> ToBits(t0 + 5 * (i - 1)), sequence |-> {0},
                       objects |-> os[i]]] :
        t0 \in {0, 100}, os \in [1..3 -> RecordedObjects]}

\* A recording is made and the file is decoded.
RunDiffAndDecode(snaps, skip_empty) ==
    /\ d_op = "none"
    /\ \E rec \in {run_diff(snaps, skip_empty)} :
         /\ d_op' = "run_diff"
         /\ d_in' = [snaps |-> snaps, skip_empty |-> skip_empty, written |-> rec.written]
         /\ d_out' = decode_binary_file(rec.file)
    /\ UNCHANGED notDiffVars

CodecNext ==
    \/ \E diffs \in CodecFiles : WriteAndDecode(diffs)
    \/ \E snaps \in RecordedSnapshots, skip_empty \in BOOLEAN :
          RunDiffAndDecode(snaps, skip_empty)
    \/ \E diff \in {d \in CodecDiffs : Len(d.field_changes) <= 1 /\ d.timestamp_ns = {0}} :
          \E damage \in Damages(write_file(<<diff>>)), outcome \in {0, 1, NoExit} :
             DecodeFile(diff, damage, outcome)

(***************************************************************************)
(* An ObjectView kept by the observer program                              *)
(*                                                                         *)
(* ObjectView::type_ is the pointer &types_[i] that Observer::get_type     *)
(* returned when the view was constructed.  load_types clears types_ and   *)
(* builds it anew, which ends the lifetime of the ObservedType objects and *)
(* of their fields vectors; types_ is loaded when refresh finds a sequence  *)
(* other than last_sequence_, so the types_ a pointer refers to is named   *)
(* by the last_sequence_ it was loaded at.                                 *)
(***************************************************************************)
NoView == [slot |-> 0 - 1, valid |-> FALSE, type_index |-> 0, loaded_at |-> 0]
NoField == [found |-> FALSE, offset |-> 0]
NoLookup == [op |-> "none", name |-> "", dangling |-> FALSE, old |-> NoField,
             fresh |-> NoField]
ViewIdle == held = NoView /\ held_out = NoLookup

\* Observer::get_type(type_id): the index in types_ (0 for nullptr);
\* type_id_to_index_ keeps the last index stored for an id.
get_type(type_id) ==
    LET hits == {k \in 1..Len(types_) : types_[k].type_id = type_id}
    IN  IF hits = {} THEN 0 ELSE CHOOSE k \in hits : \A m \in hits : m <= k

\* ObjectView::find_field(name) with type_ = &types_[type_index].
view_find_field(type_index, name) ==
    IF type_index = 0 THEN NoField
    ELSE LET fields == types_[type_index].fields
             hits == {j \in 1..Len(fields) : fields[j].name = name}
         IN  IF hits = {} THEN NoField
             ELSE [found |-> TRUE,
                   offset |-> fields[CHOOSE j \in hits : \A m \in hits : j <= m].offset]

\* The ObservedType that the view's type_ points to still exists.
TypeStillLoaded(view) ==
    view.type_index = 0
      \/ (view.loaded_at = last_sequence_ /\ view.type_index <= Len(types_))

\* load_types, lines 269-270: types_.clear() ends the lifetime of what the
\* view's type_ points to.
TypeIsDangling(view) == ~TypeStillLoaded(view)

\* What reading through a dangling type_ may give: the fields as they are
\* loaded now (the storage was reused for the same type), nothing, or a
\* field entry made of other bytes.
DanglingOutcomes(name) ==
    {view_find_field(get_type(entries[held.slot].type_id), name),
     NoField, [found |-> TRUE, offset |-> 0 - 1]}

\* The program keeps the view that find(label) returned (ObjectView's
\* constructor, part_003 lines 63-69).
HoldView(label) ==
    /\ connected_
    /\ \E r \in {find(label)} :
         /\ r.slot >= 0
         /\ held' = [slot |-> r.slot, valid |-> r.valid,
                     type_index |-> get_type(entries[r.slot].type_id),
                     loaded_at |-> last_sequence_]
    /\ held_out' = NoLookup
    /\ UNCHANGED notViewVars

\* The program looks a field up through the view it keeps (`old`) and, for
\* comparison, through a view of the same object constructed now (`fresh`).
ViewFindField(name, outcome) ==
    /\ connected_
    /\ held.slot >= 0
    /\ outcome \in (IF TypeIsDangling(held) THEN DanglingOutcomes(name)
                    ELSE {view_find_field(held.type_index, name)})
    /\ held_out' = [op |-> "find_field", name |-> name,
                    dangling |-> TypeIsDangling(held),
                    old |-> outcome,
                    fresh |-> view_find_field(get_type(entries[held.slot].type_id), name)]
    /\ UNCHANGED <<held, notViewVars>>

\* The state after construction: every part idle.
Init ==
    SeqInit /\ LockInit /\ FieldIdle /\ MainInit /\ ProxyIdle /\ LookupIdle /\ HandlesIdle
        /\ DiffIdle /\ ViewIdle

\* sizes and alignments of the program's own allocate calls
AllocSizes == {24}
AllocAlignments == {16}
\* element counts of create (1) and create_array
Counts == {0, 1}

\* The calls of a producer program that creates and destroys objects, with T
\* drawn from the given set.
ProducerStep(types) ==
    \/ \E T \in types : register_type_for(T)
    \/ \E cfg \in Configs, header_ok, region_ok \in BOOLEAN :
          ContextInit(cfg, header_ok, region_ok)
    \/ AllocateDescriptor
    \/ AllocateLink
    \/ AllocateSequence
    \/ AllocateUsed
    \/ \E T \in types, label \in Labels, count \in Counts, shm_ok \in BOOLEAN :
          Create(T, label, count, shm_ok)
    \/ RegisterState
    \/ RegisterFields
    \/ RegisterCount
    \/ RegisterSequence
    \/ \E ptr \in Addresses : Destroy(ptr)
    \/ DestroySequence

ObserverStep ==
    \/ Connect
    \/ Disconnect
    \/ Refresh
    \/ Objects
    \/ \E label \in Labels : Find(label)

\* A producer program alone, using both types and allocating on its own too.
ProducerNext ==
    \/ ProducerStep(Types)
    \/ \E size \in AllocSizes, alignment \in AllocAlignments, shm_ok \in BOOLEAN :
          Allocate(size, alignment, shm_ok)
SpecProducer == Init /\ [][ProducerNext]_vars

\* A program that only allocates, under two configurations; the sizes are
\* 24, 72 and SIZE_MAX - 7.
AllocConfigs ==
    Configs \cup { [initial_region_size |-> 64, max_region_size |-> 256,
                    max_types |-> 1, max_fields |-> 1, max_objects |-> 2] }
AllocRequestSizes == {24, 72, 0 - 8}
AllocRequestAlignments == {8, 256}
AllocNext ==
    \/ \E cfg \in AllocConfigs, header_ok, region_ok \in BOOLEAN :
          ContextInit(cfg, header_ok, region_ok)
    \/ \E size \in AllocRequestSizes, alignment \in AllocRequestAlignments,
          shm_ok \in BOOLEAN :
          Allocate(size, alignment, shm_ok)
    \/ AllocateDescriptor
    \/ AllocateLink
    \/ AllocateSequence
    \/ AllocateUsed
SpecAlloc == Init /\ [][AllocNext]_vars

\* A process that starts and ends sessions, creating objects of type Ab in
\* them, and an observer that connects and disconnects.
LifeNext ==
    \/ register_type_for("Ab")
    \/ \E cfg \in Configs, header_ok, region_ok \in BOOLEAN :
          init(cfg, header_ok, region_ok)
    \/ Shutdown
    \/ \E label \in Labels, shm_ok \in BOOLEAN : Create("Ab", label, 1, shm_ok)
    \/ AllocateDescriptor
    \/ AllocateLink
    \/ AllocateSequence
    \/ AllocateUsed
    \/ RegisterState
    \/ RegisterFields
    \/ RegisterCount
    \/ RegisterSequence
    \/ Connect
    \/ Disconnect
SpecLife == Init /\ [][LifeNext]_vars

\* An observer, facing either a session with objects of type Ab or a
\* segment that is not a header of this protocol.
ForeignHeaders == {<<"NOTMAGIC", PROTOCOL_VERSION>>, <<HEADER_MAGIC, PROTOCOL_VERSION + 1>>}
ObserverNext ==
    \/ register_type_for("Ab")
    \/ \E cfg \in Configs, header_ok, region_ok \in BOOLEAN :
          ContextInit(cfg, header_ok, region_ok)
    \/ \E h \in ForeignHeaders : ForeignHeader(h[1], h[2])
    \/ \E label \in Labels, shm_ok \in BOOLEAN : Create("Ab", label, 1, shm_ok)
    \/ AllocateDescriptor
    \/ AllocateLink
    \/ AllocateSequence
    \/ AllocateUsed
    \/ RegisterState
    \/ RegisterFields
    \/ RegisterCount
    \/ RegisterSequence
    \/ ObserverStep
SpecObserver == Init /\ [][ObserverNext]_vars

\* A producer program that uses the type Ab, and an observer.
Next ==
    \/ ProducerStep({"Ab"})
    \/ ObserverStep
Spec == Init /\ [][Next]_vars

(***************************************************************************)
(* Specifications                                                          *)
(***************************************************************************)
SeqNext ==
    \/ \E k \in 1..MaxWrites : GuardedWriteBegin(k)
    \/ \E x \in {"seq"} \cup Words : GuardedWriteStore(x)
    \/ GuardedWriteEnd
    \/ \E r \in Readers, kind \in {"read", "try_read"} : GuardedReadCall(r, kind)
    \/ \E r \in Readers : GuardedLoadS1(r)
    \/ \E r \in Readers, i \in Words : GuardedCopyWord(r, i)
    \/ \E r \in Readers : GuardedLoadS2(r)

SpecSeq == Init /\ [][SeqNext]_vars

\* The same program under fair scheduling: a thread inside write(), read()
\* or try_read() keeps taking its steps.  Whether write, read or try_read
\* are called at all is left to the program.
WriterStep ==
    \/ \E x \in {"seq"} \cup Words : GuardedWriteStore(x)
    \/ GuardedWriteEnd
ReaderStep(r) ==
    \/ GuardedLoadS1(r)
    \/ \E i \in Words : GuardedCopyWord(r, i)
    \/ GuardedLoadS2(r)
SpecSeqFair ==
    /\ SpecSeq
    /\ WF_vars(WriterStep)
    /\ \A r \in Readers : WF_vars(ReaderStep(r))

\* A program that looks fields up in a view and in the proxies it gets.
LookupNext ==
    \/ \E name \in LookupNames : ViewLookup(name)
    \/ \E name \in LookupNames : ProxyLookup(name)
    \/ \E index \in 0..MaxIndex : ProxyElement(index)
SpecLookup == Init /\ [][LookupNext]_vars

\* A program using SharedMemory handles.
HandleNext ==
    \/ \E h \in Handles, name \in ShmNames, sized_ok \in BOOLEAN : ShmCreate(h, name, sized_ok)
    \/ \E h \in Handles, name \in ShmNames, mapped_ok \in BOOLEAN : ShmOpen(h, name, mapped_ok)
    \/ \E h \in Handles : ShmClose(h)
    \/ \E h, other \in Handles : ShmMoveConstruct(h, other)
    \/ \E h, other \in Handles : ShmMoveAssign(h, other)
SpecHandles == Init /\ [][HandleNext]_vars

\* The registry on its own: any sequence of register_type calls.
RegistryNext == \E T \in DOMAIN TypeDescriptor : register_type_call(T)
SpecRegistry == Init /\ [][RegistryNext]_vars

\* memglass-diff: varints written and read back.
SpecVarint == Init /\ [][VarintNext]_vars

\* memglass-diff: two snapshots compared.
SpecDiff == Init /\ [][DiffNext]_vars

\* memglass-diff: binary files written and decoded.
SpecCodec == Init /\ [][CodecNext]_vars

\* A producer that registers Ab and creates objects of it, and an observer
\* that connects, refreshes, keeps a view and looks fields up through it.
ViewConfigs ==
    { [initial_region_size |-> 16, max_region_size |-> 32,
       max_types |-> 1, max_fields |-> 2, max_objects |-> 2] }
ViewOutcomes == {NoField, [found |-> TRUE, offset |-> 0 - 1]}
                  \cup {[found |-> TRUE, offset |-> ViewFields[i].offset] :
                           i \in 1..Len(ViewFields)}
ViewNext ==
    \/ register_type_for("Ab")
    \/ \E cfg \in ViewConfigs, header_ok, region_ok \in BOOLEAN :
          ContextInit(cfg, header_ok, region_ok)
    \/ \E label \in Labels, shm_ok \in BOOLEAN : Create("Ab", label, 1, shm_ok)
    \/ AllocateDescriptor
    \/ AllocateLink
    \/ AllocateSequence
    \/ AllocateUsed
    \/ RegisterState
    \/ RegisterFields
    \/ RegisterCount
    \/ RegisterSequence
    \/ Connect
    \/ Refresh
    \/ \E label \in Labels : HoldView(label)
    \/ \E name \in FieldNames, outcome \in ViewOutcomes : ViewFindField(name, outcome)
SpecView == Init /\ [][ViewNext]_vars

\* The Guarded value with the producer and the observer both writing it.
ProxyWriteNext ==
    \/ SeqNext
    \/ \E k \in 1..MaxWrites : ProxyWriteBegin(k)
    \/ \E x \in {"seq"} \cup Words : ProxyWriteStore(x)
    \/ ProxyWriteEnd
SpecProxyWrite == Init /\ [][ProxyWriteNext]_vars

LockNext ==
    \/ \E t \in Threads, op \in {"write", "read", "update"}, k \in {0, 5} :
          LockedCall(t, op, k)
    \/ \E t \in Threads : LockedAcquire(t)
    \/ \E t \in Threads : LockedWriteWord(t)
    \/ \E t \in Threads : LockedReadWord(t)
    \/ \E t \in Threads : LockedUpdateLoad(t)
    \/ \E t \in Threads : LockedUpdateStore(t)
    \/ \E t \in Threads : LockedRelease(t)

SpecLock == Init /\ [][LockNext]_vars

\* The same threads under fair scheduling: a thread inside a call keeps
\* running (its test_and_set loop included).
ThreadStep(t) ==
    \/ LockedAcquire(t)
    \/ LockedWriteWord(t)
    \/ LockedReadWord(t)
    \/ LockedUpdateLoad(t)
    \/ LockedUpdateStore(t)
    \/ LockedRelease(t)
SpecLockFair == SpecLock /\ \A t \in Threads : WF_vars(ThreadStep(t))

FieldNext ==
    \/ \E name \in FieldNames, k \in 1..MaxStores : FieldStoreAtomic(name, k)
    \/ \E name \in FieldNames, k \in 1..MaxStores : FieldStoreBegin(name, k)
    \/ \E u \in ObjectUnits : FieldStoreUnit(u)
    \/ \E name \in FieldNames : FieldRead(name)
    \/ FieldLoadAtomic
    \/ \E u \in ObjectUnits : FieldLoadUnit(u)

SpecField == Init /\ [][FieldNext]_vars

(***************************************************************************)
(* C1                                                                      *)
(***************************************************************************)
\* The values a reader may legitimately obtain: the initial value or a value
\* passed whole to one write.
WrittenWhole == {Whole(0)} \cup {written[n] : n \in 1..Len(written)}

\* C1: every completed read and every try_read that returns a value yields
\* the initial value or a value passed whole to one write (never a mix of
\* two writes).
C1_NoTornRead ==
    \A r \in Readers :
        (r_pc[r] = "done" /\ r_out[r].has) => r_out[r].val \in WrittenWhole

(***************************************************************************)
(* C2                                                                      *)
(***************************************************************************)
\* What a completed read of the field may return: the initial value or a
\* value of a store begun so far, whole, and not older than the last store
\* that had completed when the read began.
ReadReturnsStored ==
    /\ \E k \in 0..f_begun[v_field] : v_out = <<k, k>>
    /\ v_out[1] >= v_floor

\* C2, as stated: every completed read of an Atomic or plain scalar field
\* through the view returns the initial value or a stored value, and a read
\* begun after a completed store returns that store's value or a later one.
C2_FieldReadsStored == (v_pc = "done") => ReadReturnsStored

\* C2, amended: the same for every read of an Atomic field, and for a read
\* of a plain scalar field that no producer store to the field overlaps.
C2_AtomicOrQuietReadsStored ==
    (/\ v_pc = "done"
     /\ find_field(v_field).atomicity = "Atomic" \/ ~v_raced)
        => ReadReturnsStored

\* A read of the Atomic field begun after the first store completed returns
\* the second store, made meanwhile; no refresh exists in this specification.
C2_SeesLaterStore ==
    /\ v_pc = "done" /\ v_field = "x"
    /\ v_floor = 1 /\ v_out = <<2, 2>>

(***************************************************************************)
(* C3                                                                      *)
(***************************************************************************)
\* At most one call is inside its critical section.
MutualExclusion ==
    \A t, u \in Threads : (InCriticalSection(t) /\ InCriticalSection(u)) => t = u

\* While no call is inside its critical section the value is the one a
\* one-at-a-time execution of the completed calls gives (no lost update).
NoLostUpdate ==
    (\A t \in Threads : ~InCriticalSection(t)) => value = Whole(l_serial)

\* With update calls only, the value has grown by exactly the number of
\* update calls made (N threads with k calls each end at N * k).
AllUpdatesCounted ==
    (l_writes = 0 /\ \A t \in Threads : t_op[t] = "idle") => value = Whole(l_updates)

\* Every read returns a value whose words come from one write/update.
ReadsWhole == \A t \in Threads : \A i, j \in Words : t_out[t][i] = t_out[t][j]

\* C3: Locked<T> gives mutual exclusion; no update is lost and every read
\* returns a value written whole by one write or update.
C3_LockedExclusive ==
    MutualExclusion /\ NoLostUpdate /\ AllUpdatesCounted /\ ReadsWhole

\* An update call has completed, another call is inside its critical section
\* and a thread with an update to make spins on the lock.
C3_Contended ==
    /\ l_updates >= 1
    /\ value = Whole(l_updates)
    /\ \E t, u \in Threads :
          /\ InCriticalSection(t)
          /\ t_op[u] = "update" /\ t_step[u] = 0

(***************************************************************************)
(* C4                                                                      *)
(***************************************************************************)
\* The slot of the running register_object is completely written and counted.
SlotWritten ==
    /\ entries[p.slot] = [state |-> Alive, type_id |-> p.type_id,
                          region_id |-> p.ptr[1], offset |-> p.ptr[2],
                          generation |-> 1, label |-> p.label]
    /\ header.object_count = p.slot + 1

\* The region created by the running allocate is linked behind its predecessor.
RegionLinked ==
    /\ Len(regions_) >= 2
    /\ regions_[Len(regions_)] = p.rid
    /\ region_shm[regions_[Len(regions_) - 1]].next_region_id = p.rid

SequenceStep ==
    \* a step moves the sequence by one, and only after the writes of the
    \* operation that moves it
    /\ header'.sequence # header.sequence =>
          /\ header'.sequence = header.sequence + 1
          /\ \/ p.op = "create" /\ p_pc' = "idle" /\ SlotWritten
             \/ p.op = "destroy" /\ entries[p.slot].state = Destroyed
             \/ p_pc' = "alloc_used" /\ RegionLinked
    \* a register_object that succeeds has moved it by exactly one
    /\ (p_pc # "idle" /\ p_pc' = "idle" /\ p_ret'.op = "create" /\ p_ret'.slot >= 0) =>
          header'.sequence = p.seq0 + 1
    \* so has a destroy_object of a registered pointer, and the others none
    /\ (p_pc' = "idle" /\ p_ret'.op = "destroy" /\ p_ret' # p_ret) =>
          /\ p_ret'.ok = (p_ret'.ptr \in DOMAIN ptr_to_entry_)
          /\ header'.sequence = p_ret'.seq0 + (IF p_ret'.ok THEN 1 ELSE 0)
    \* an allocate has moved it by one for the region it created, if any
    /\ (p_pc = "alloc_used") =>
          header.sequence = p.seq0 + (Len(regions_) - p.regions0)

C5_TypeRegistrationBumps ==
    [][(initialized_ /\ g_types' # g_types) => header'.sequence > header.sequence]_vars

(***************************************************************************)
(* C6                                                                      *)
(***************************************************************************)
CountsWithinCapacity ==
    /\ header.type_count <= header.type_registry_capacity
    /\ header.field_count <= header.field_entries_capacity
    /\ header.object_count <= header.object_dir_capacity

CountsNeverDecrease ==
    /\ header'.sequence >= header.sequence
    /\ header'.type_count >= header.type_count
    /\ header'.field_count >= header.field_count
    /\ header'.object_count >= header.object_count

\* C6: within a session sequence, type_count, field_count and object_count
\* never decrease, and each count stays within its declared capacity.
C6_CountsMonotoneBounded == []CountsWithinCapacity /\ [][CountsNeverDecrease]_vars

\* More types and fields are registered than the tables hold, the directory
\* is full, and a create came back with its object not registered.
C6_AllTablesFull ==
    /\ Len(g_types) > header.type_registry_capacity
    /\ header.type_count = header.type_registry_capacity
    /\ header.field_count = header.field_entries_capacity
    /\ header.object_count = header.object_dir_capacity
    /\ header.object_dir_capacity > 0
    /\ p_ret.op = "create" /\ p_ret.ok /\ p_ret.slot < 0

(***************************************************************************)
(* C7                                                                      *)
(***************************************************************************)
\* Every pointer of ptr_to_entry_ is the address of the Alive slot it maps to
\* (the pointer a running destroy_object is about to erase apart).
RegisteredPointersAlive ==
    \A ptr \in DOMAIN ptr_to_entry_ :
        LET e == entries[ptr_to_entry_[ptr]]
        IN  /\ <<e.region_id, e.offset>> = ptr
            /\ e.state = Alive \/ (p_pc = "des_seq" /\ p.ptr = ptr)

\* The step is a call of destroy on ptr.
DestroyCalled(ptr) ==
    /\ p_pc = "idle"
    /\ \/ p_pc' = "des_seq" /\ p'.ptr = ptr
       \/ p_pc' = "idle" /\ p_ret'.op = "destroy" /\ p_ret'.ptr = ptr /\ p_ret' # p_ret

SlotStateStep ==
    /\ \A i \in DOMAIN entries :
          /\ i \in DOMAIN entries'
          /\ entries'[i].state # entries[i].state =>
                <<entries[i].state, entries'[i].state>> \in {<<Free, Alive>>, <<Alive, Destroyed>>}
    /\ \A ptr \in Addresses :
          (DestroyCalled(ptr) /\ ptr \notin DOMAIN ptr_to_entry_) =>
              /\ entries' = entries
              /\ header' = header
              /\ p_pc' = "idle"

\* C7: a slot's state only moves Free -> Alive -> Destroyed, and destroy on a
\* pointer that is not registered as Alive (never registered, or destroyed
\* already) changes no slot and not the sequence.
C7_SlotStatesOneWay == []RegisteredPointersAlive /\ [][SlotStateStep]_vars

\* destroy was called again on the pointer of an object destroyed before.
C7_DestroyedTwice ==
    /\ p_ret.op = "destroy" /\ ~p_ret.ok
    /\ \E i \in 0..(header.object_count - 1) :
          /\ entries[i].state = Destroyed
          /\ <<entries[i].region_id, entries[i].offset>> = p_ret.ptr
          /\ \A j \in 0..(header.object_count - 1) :
                <<entries[j].region_id, entries[j].offset>> = p_ret.ptr => j = i

(***************************************************************************)
(* C8                                                                      *)
(***************************************************************************)
AliveSlots == {i \in 0..(header.object_count - 1) : entries[i].state = Alive}

\* register_object has returned for the object of slot i.
Registered(i) == i < header.object_count /\ ~(p_pc = "reg_seq" /\ p.slot = i)

\* find(o.label), just made by a connected observer, yielded o's address.
FoundAt(i) ==
    /\ o_ret.slot >= 0
    /\ <<o_ret.region_id, o_ret.offset>> = <<entries[i].region_id, entries[i].offset>>

\* The members of a slot counted in object_count, the state apart, stay.
SlotMembersStay ==
    \A i \in 0..(header.object_count - 1) :
        /\ entries'[i].region_id = entries[i].region_id
        /\ entries'[i].offset = entries[i].offset
        /\ entries'[i].type_id = entries[i].type_id
        /\ entries'[i].label = entries[i].label

FindYieldsOwnAddress ==
    (connected_ /\ o_ret.op = "find") =>
        \A i \in AliveSlots :
            (Registered(i) /\ entries[i].label = o_ret.label) => FoundAt(i)

FindYieldsOwnAddressIfUnique ==
    (connected_ /\ o_ret.op = "find") =>
        \A i \in AliveSlots :
            (/\ Registered(i)
             /\ entries[i].label = o_ret.label
             /\ \A j \in AliveSlots \ {i} : entries[j].label # entries[i].label)
                => FoundAt(i)

\* C8 as stated: once register_object has returned for o, every find(o.label)
\* made while o is Alive yields o's (region_id, offset); the (region_id,
\* offset, type_id, label) of a written slot are never modified.
C8_AddressStable == []FindYieldsOwnAddress /\ [][SlotMembersStay]_vars

\* C8 as amended: the same, for every find(o.label) made while o is Alive and
\* no other Alive object carries o's label.
C8_AddressStableIfUnique == []FindYieldsOwnAddressIfUnique /\ [][SlotMembersStay]_vars

\* find yields the second object after the first, of the same label, was
\* destroyed: the only Alive object of that label.
C8_FoundSecond ==
    /\ connected_ /\ o_ret.op = "find" /\ o_ret.slot = 1
    /\ entries[0].label = o_ret.label /\ entries[0].state = Destroyed
    /\ Registered(1)

(***************************************************************************)
(* C9                                                                      *)
(***************************************************************************)
\* Slot i was Alive when the destroy that just returned was called.
AliveBeforeDestroy(i) == entries[i].state = Alive \/ i = p_ret.slot

\* C9: when destroy has returned for an Alive object whose label no other
\* Alive object carried, the sequence is greater than before the call and a
\* find(label) made by an observer that has refreshed since yields an invalid
\* view.
C9_DestroyedNotFound ==
    (p_pc = "idle" /\ p_ret.op = "destroy") =>
        \A i \in 0..(header.object_count - 1) :
            (/\ <<entries[i].region_id, entries[i].offset>> = p_ret.ptr
             /\ AliveBeforeDestroy(i)
             /\ \A j \in 0..(header.object_count - 1) \ {i} :
                   AliveBeforeDestroy(j) => entries[j].label # entries[i].label)
            => /\ header.sequence > p_ret.seq0
               /\ (/\ connected_ /\ last_sequence_ = header.sequence
                   /\ o_ret.op = "find" /\ o_ret.label = entries[i].label)
                      => ~o_ret.valid

RECURSIVE ChainFrom(_, _)
ChainFrom(region_id, seen) ==
    IF region_id = 0 \/ region_id \in seen \/ region_id \notin DOMAIN region_shm
      THEN seen
      ELSE ChainFrom(region_shm[region_id].next_region_id, seen \cup {region_id})
ChainRegions == ChainFrom(header.first_region_id, {})

\* Every region of the chain is mapped, and find(label) of every Alive
\* object is a valid view whose data lies inside a mapped region.
AllMappedAndFound ==
    /\ ChainRegions \subseteq region_shms_
    /\ \A i \in AliveSlots :
          LET v == find(entries[i].label)
          IN  /\ v.valid
              /\ v.region_id \in region_shms_
              /\ v.offset < region_shm[v.region_id].size

\* C11: with the producer's calls complete, a refresh by a connected
\* observer leaves every region of the chain mapped and find(label) valid,
\* inside a mapped region, for every Alive object.
C11_RefreshMapsAll ==
    (connected_ /\ o_ret.op = "refresh" /\ p_pc = "idle") => AllMappedAndFound

(***************************************************************************)
(* C12                                                                     *)
(***************************************************************************)
\* types() holds every entry of the type table, every region of the chain
\* is mapped.
InitialStateLoaded ==
    /\ types_ = load_types
    /\ ChainRegions \subseteq region_shms_

\* C12: a connect() that returns true against a quiescent producer leaves
\* the initial state loaded, whatever header.sequence is and whether or not
\* the Observer was connected before.
C12_ConnectLoads ==
    [][(~connected_ /\ connected_' /\ p_pc = "idle") => InitialStateLoaded']_vars

(***************************************************************************)
(* C13                                                                     *)
(***************************************************************************)
\* A refresh keeps every mapped region and opens none of them again.
RefreshKeepsMappings ==
    (connected_ /\ o_ret'.op = "refresh") =>
        /\ region_shms_ \subseteq region_shms_'
        /\ o_ret'.opened \cap region_shms_ = {}
        /\ o_ret'.opened = region_shms_' \ region_shms_

\* C13: refresh never unmaps, remaps or replaces a region already mapped.
C13_RefreshNeverRemaps == [][RefreshKeepsMappings]_vars

\* A refresh mapped the second region beside the first, mapped before.
C13_MappedSecond ==
    /\ connected_ /\ o_ret.op = "refresh"
    /\ o_ret.opened = {2}
    /\ region_shms_ = {1, 2}

(***************************************************************************)
(* C14                                                                     *)
(***************************************************************************)
\* allocate returns a pointer in this step (to its caller, or to create).
AllocateReturns == p_pc = "alloc_used" /\ p_pc' # "alloc_used"

\* The range [aligned, aligned + size) lies in the payload of the region
\* whose descriptor is d.
InPayload(aligned, size, d) ==
    /\ aligned >= SizeofRegionDescriptor
    /\ size >= 0
    /\ aligned + size <= d.size

\* The pointer returned is aligned and its range lies inside the payload of
\* the region it points into.
ReturnedRangeInside ==
    AllocateReturns =>
        /\ p.aligned % p.alignment = 0
        /\ InPayload(p.aligned, p.size, region_shm[p.rid])

\* Every region keeps used <= size.
UsedWithinSize ==
    \A r \in DOMAIN region_shm :
        region_shm[r].used >= 0 /\ region_shm[r].used <= region_shm[r].size

\* C14: a non-null result of allocate is aligned as requested and its whole
\* range lies inside the payload of one region; every region keeps
\* used <= size.
C14_AllocatedInsideRegion == []UsedWithinSize /\ [][ReturnedRangeInside]_vars

(***************************************************************************)
(* C15                                                                     *)
(***************************************************************************)
\* No region's used counter decreases in this step.
UsedNeverDecreases ==
    \A r \in DOMAIN region_shm :
        r \in DOMAIN region_shm' => ~ULess(region_shm'[r].used, region_shm[r].used)

\* A range returned with size > 0 starts at or above the used counter the
\* region had before the call, above every range returned from it earlier,
\* and ends at the new used counter.
ReturnedRangeFresh ==
    (AllocateReturns /\ p.size # 0) =>
        /\ ~ULess(p.aligned, region_shm[p.rid].used)
        /\ p.size > 0
        /\ region_shm'[p.rid].used = p.aligned + p.size

\* C15: the used counters never decrease and the ranges returned by
\* successful allocate calls with size > 0 are pairwise disjoint.
C15_RangesDisjoint == [][UsedNeverDecreases /\ ReturnedRangeFresh]_vars

(***************************************************************************)
(* C16                                                                     *)
(***************************************************************************)
\* A request that a region of at most max_region_size can hold.
FitsUnderCap(size, alignment) ==
    InPayload(AlignUp(SizeofRegionDescriptor, alignment), size,
              [size |-> SizeofRegionDescriptor + config_.max_region_size])

\* A pointer returned out of a region created by this call: the request
\* fits in a region of at most max_region_size.
NewRegionOnlyUnderCap ==
    (AllocateReturns /\ Len(regions_) > p.regions0) =>
        FitsUnderCap(p.size, p.alignment)

\* allocate returns null in this step.
AllocateFails ==
    /\ p_pc' = "idle" /\ p_ret'.op \in {"allocate", "create"}
    /\ ~p_ret'.ok /\ p_ret' # p_ret

\* C16: allocate returns null when the segment cannot be created and when
\* the request does not fit in a region of at most max_region_size, and a
\* call that returns null advances no used counter.
C16_ExhaustedReturnsNull ==
    [][/\ NewRegionOnlyUnderCap
       /\ AllocateFails => \A r \in DOMAIN region_shm :
                              region_shm'[r].used = region_shm[r].used]_vars

(***************************************************************************)
(* C17                                                                     *)
(***************************************************************************)
\* create<T> or create_array<T> returns to its caller in this step.
CreateReturns ==
    /\ p_pc' = "idle" /\ p_ret'.op = "create"
    /\ <<p_pc, p_ret>> # <<p_pc', p_ret'>>

\* The directory was full when the call now at its first step, or at the
\* capacity test of register_object, was made.
DirectoryFull ==
    /\ initialized_ /\ header.object_count = header.object_dir_capacity
    /\ p_pc \in {"idle", "register"}

\* C17: with the object directory full, create returns null and leaves
\* object_count, header.sequence and the directory entries as they were
\* when it was called.
C17_FullDirectoryReturnsNull ==
    [][(CreateReturns /\ DirectoryFull) =>
          /\ ~p_ret'.ok /\ p_ret'.ptr = Nullptr
          /\ header'.object_count = header.object_count
          /\ header'.sequence = p_ret'.seq0
          /\ entries' = entries]_vars

(***************************************************************************)
(* C18                                                                     *)
(***************************************************************************)
\* This step is a call of create<T> made with no session initialized or
\* for a type T whose typeid name the registry does not know.
CreateWithoutTypeOrSession ==
    \E T \in Types, label \in Labels, count \in Counts, shm_ok \in BOOLEAN :
        /\ Create(T, label, count, shm_ok)
        /\ ~initialized_ \/ get_type_id(TypeDescriptor[T].typeid) = 0

\* C18: create<T> for an unregistered type, or with no session initialized,
\* returns null at once and leaves every used counter, object_count and
\* header.sequence unchanged.
C18_UnregisteredReturnsNull ==
    [][CreateWithoutTypeOrSession =>
          /\ p_pc' = "idle" /\ p_ret'.op = "create"
          /\ ~p_ret'.ok /\ p_ret'.ptr = Nullptr
          /\ DOMAIN region_shm' = DOMAIN region_shm
          /\ \A r \in DOMAIN region_shm : region_shm'[r].used = region_shm[r].used
          /\ header'.object_count = header.object_count
          /\ header'.sequence = header.sequence]_vars

\* A session is initialized, no type is registered, and create returned null.
C18_RefusedInSession ==
    /\ initialized_ /\ DOMAIN g_name_to_id = {}
    /\ p_ret.op = "create" /\ ~p_ret.ok /\ p_ret.ptr = Nullptr

(***************************************************************************)
(* C19                                                                     *)
(***************************************************************************)
\* This step is a call of memglass::init.
InitCalled ==
    \E cfg \in Configs, header_ok, region_ok \in BOOLEAN : init(cfg, header_ok, region_ok)

\* The session, its segments included, is as it was.
SessionUntouched ==
    UNCHANGED <<initialized_, config_, regions_, next_region_id_,
                current_region_size_, ptr_to_entry_, shmVars>>

\* init returns true exactly when it started a session where there was
\* none, and leaves an existing session untouched; shutdown leaves no
\* session, and without one changes nothing.
LifecycleStep ==
    /\ InitCalled =>
          /\ p_ret'.op = "init"
          /\ p_ret'.ok <=> (~initialized_ /\ initialized_')
          /\ initialized_ => (~p_ret'.ok /\ SessionUntouched)
    /\ Shutdown =>
          /\ ~initialized_'
          /\ ~initialized_ => SessionUntouched

\* With no session, a call of init whose segments can be created succeeds.
InitCanSucceed ==
    (~initialized_ /\ p_pc = "idle") =>
        \E cfg \in Configs :
            ENABLED (init(cfg, TRUE, TRUE) /\ initialized_' /\ p_ret'.ok)

\* C19: init succeeds only when the process has no session and fails,
\* leaving the session untouched, when it has one; shutdown is idempotent
\* and always leaves no session, after which init can succeed again.
C19_TwoStateLifecycle == []InitCanSucceed /\ [][LifecycleStep]_vars

\* A session started after an earlier one was shut down: the observer still
\* holds the sequence number it read from the earlier session's header.
C19_SecondSession ==
    /\ initialized_ /\ p_ret.op = "init" /\ p_ret.ok
    /\ last_sequence_ > header.sequence

(***************************************************************************)
(* C20                                                                     *)
(***************************************************************************)
\* Without a session neither the header name nor a region name exists.
NoNamesWithoutSession ==
    ~initialized_ => (~header_shm /\ DOMAIN region_shm = {})

\* C20 as stated: after shutdown, and after a failed init, no header or
\* region name is left, and every later connect returns false.
C20_ShutdownUnlinks ==
    /\ []NoNamesWithoutSession
    /\ [][(Connect /\ ~initialized_) => ~o_ret'.valid]_vars

\* C20: after shutdown, and after a failed init, no header or region name
\* is left, and a later connect by an observer that is not connected
\* returns false and leaves it unconnected.
C20_ShutdownUnlinksFresh ==
    /\ []NoNamesWithoutSession
    /\ [][(Connect /\ ~initialized_ /\ ~connected_) =>
             (~o_ret'.valid /\ ~connected_')]_vars

\* A session that published something was shut down and a connect made
\* afterwards by an unconnected observer returned false.
C20_ConnectAfterShutdown ==
    /\ p_ret.op = "shutdown" /\ ~initialized_ /\ ~header_shm
    /\ header.magic = HEADER_MAGIC /\ header.sequence > 0
    /\ o_ret.op = "connect" /\ ~o_ret.valid /\ ~connected_

(***************************************************************************)
(* C21                                                                     *)
(***************************************************************************)
\* What the observer holds is as it was.
ObserverUntouched == UNCHANGED <<connected_, last_sequence_, types_, region_shms_>>

\* The header segment is missing, or is not a header of this protocol.
NoUsableHeader ==
    ~header_shm \/ header.magic # HEADER_MAGIC \/ header.version # PROTOCOL_VERSION

\* The calls of the observer, step by step, in the two states.
ObserverStateMachine ==
    /\ (Connect /\ ~connected_ /\ NoUsableHeader) =>
          (~o_ret'.valid /\ ~connected_' /\ ObserverUntouched)
    /\ (Connect /\ connected_) => (o_ret'.valid /\ ObserverUntouched)
    /\ (Refresh /\ ~connected_) => ObserverUntouched
    /\ (Disconnect /\ ~connected_) => ObserverUntouched
    /\ Disconnect => ~connected_'
    /\ (Objects /\ ~connected_) => o_ret'.list = <<>>
    /\ \A label \in Labels : (Find(label) /\ ~connected_) => ~o_ret'.valid
    /\ connected_' # connected_ => (Connect \/ Disconnect)

QuietValueWhole ==
    (w_pc = "idle" /\ x_pc = "idle") => value_ \in WrittenWhole

\* C22: with the observer writing a Seqlock- or Locked-tagged field through
\* its proxy while the producer writes it through the wrapper, every
\* completed read returns a value written whole by one writer.
C22_WrapperKeepsWritesWhole ==
    /\ \A r \in Readers :
          (r_pc[r] = "done" /\ r_out[r].has) => r_out[r].val \in WrittenWhole
    /\ QuietValueWhole
    /\ ReadsWhole

(***************************************************************************)
(* C23                                                                     *)
(***************************************************************************)
\* The parts of the names asked for so far, in order: the flat name that
\* the chain view[n1][n2]... spells.
RECURSIVE Spelled(_)
Spelled(path) ==
    IF path = <<>> THEN <<>> ELSE path[1].name \o Spelled(Tail(path))

NamesOnly(path) == \A n \in 1..Len(path) : path[n].index = NoIndex

\* What tells how the bytes of a field are read.
Metadata(field) ==
    [size |-> field.size, type_id |-> field.type_id, flags |-> field.flags,
     array_size |-> field.array_size, atomicity |-> field.atomicity]

IndexedLast == fp_path # <<>> /\ fp_path[Len(fp_path)].index # NoIndex

\* The proxy indexed by the last call was found by name: it denotes a field.
IndexedAField ==
    /\ Len(fp_path) >= 2
    /\ fp_path[Len(fp_path)].index # NoIndex
    /\ fp_path[Len(fp_path) - 1].index = NoIndex

\* C24: proxy[i] is valid only for a proxy that denotes an IsArray field
\* and i < array_size, and then addresses field address + i * (size /
\* array_size); the element addressed by any chain lies inside the field;
\* indexing an element yields an invalid proxy.
C24_IndexStaysInside ==
    IndexedLast =>
        /\ fp.valid =>
              /\ IndexedAField
              /\ BitAnd(FieldOf(fp).flags, IsArray) # 0
              /\ fp_path[Len(fp_path)].index < FieldOf(fp).array_size
              /\ fp.data = fp.base + fp_path[Len(fp_path)].index
                                      * (FieldOf(fp).size \div FieldOf(fp).array_size)
              /\ fp.data >= fp.base
              /\ fp.data + FieldOf(fp).size \div FieldOf(fp).array_size
                    <= fp.base + FieldOf(fp).size
        /\ ~IndexedAField => ~fp.valid

(***************************************************************************)
(* C25                                                                     *)
(***************************************************************************)
\* At most one handle owns a segment.
OneOwner ==
    \A h, g \in Handles :
        (h # g /\ shm_handles[h].is_owner /\ shm_handles[g].is_owner)
            => shm_handles[h].data # shm_handles[g].data

\* An owner maps the segment it owns.
OwnerIsMapped == \A h \in Handles : shm_handles[h].is_owner => shm_handles[h].data # 0

\* Handle h becomes an owner in this step by a successful create of its own
\* or by a move from an owner, which is left unmapped and not an owner.
BecomesOwnerProperly(h) ==
    \/ \E name \in ShmNames : ShmCreate(h, name, TRUE)
    \/ \E other \in Handles \ {h} :
          /\ ShmMoveConstruct(h, other) \/ ShmMoveAssign(h, other)
          /\ shm_handles[other].is_owner
          /\ shm_handles'[other].data = 0 /\ ~shm_handles'[other].is_owner

\* A name goes in this step only by the close or drop of a handle that
\* owns its segment (a close inside create, open or a move assignment
\* included), and the other handles keep their mappings.
UnlinkedByOwner(name) ==
    \E h \in Handles :
        /\ shm_handles[h].is_owner /\ shm_handles[h].data = shm_names[name]
        /\ shm_handles'[h] # shm_handles[h]

HandleStep ==
    /\ \A h \in Handles :
          (shm_handles'[h].is_owner /\ ~shm_handles[h].is_owner) => BecomesOwnerProperly(h)
    /\ \A name \in ShmNames :
          (shm_names[name] # 0 /\ shm_names'[name] # shm_names[name]) => UnlinkedByOwner(name)
    /\ \A h \in Handles :
          (ShmClose(h) /\ ~shm_handles[h].is_owner) =>
              /\ shm_names' = shm_names
              /\ \A g \in Handles \ {h} : shm_handles'[g] = shm_handles[g]

\* C25: is_owner is true only after a successful create or a move from an
\* owner, a moved-from handle is unmapped and no owner, at most one handle
\* owns a segment, the name is unlinked exactly by the close or drop of the
\* owning handle, and closing an opened handle unlinks nothing and leaves
\* the creator's mapping.
C25_SingleOwner == []OneOwner /\ []OwnerIsMapped /\ [][HandleStep]_vars


(***************************************************************************)
(* C26: type ids handed out by register_type                               *)
(***************************************************************************)
\* C26: every call of register_type returns an id that is not 0 and is at
\* least UserTypeBase; a name registered before gets its id back and no type
\* is added; the id returned is the id of no other name; afterwards
\* get_type_id of the name is the id returned, and get_type_id of a name
\* never registered is 0.
C26_TypeIdsUniqueAndLarge ==
    [][\A T \in DOMAIN TypeDescriptor :
         register_type_call(T) =>
           LET r == register_type(T)
               name == TypeDescriptor[T].name
           IN  /\ r.id # 0
               /\ ~ULess(r.id, UserTypeBase)
               /\ name \in DOMAIN g_name_to_id =>
                     /\ r.id = g_name_to_id[name]
                     /\ g_types' = g_types
               /\ \A other \in DOMAIN g_name_to_id \ {name} :
                     g_name_to_id[other] # r.id
               /\ get_type_id(name)' = r.id
               /\ \A U \in DOMAIN TypeDescriptor :
                     TypeDescriptor[U].name \notin DOMAIN g_name_to_id' =>
                       get_type_id(TypeDescriptor[U].name)' = 0]_vars

\* Both names hashing to 0xFFFFFFFF are registered.
C26_BothTopNames ==
    {TypeDescriptor["hLICpj"].name, TypeDescriptor["hLICqI"].name}
        \subseteq DOMAIN g_name_to_id

(***************************************************************************)
(* C27: what compute_diff reports                                          *)
(***************************************************************************)
Elements(seq) == {seq[i] : i \in 1..Len(seq)}

\* C27: the added labels are those of the new snapshot missing in the old
\* one, the removed labels those of the old snapshot missing in the new one;
\* for a label in both and a field in both, the field is among the changes,
\* with its old and its new value, exactly when the two tagged values
\* differ, and every change is about a label in both; the diff of two
\* identical snapshots is empty.
C27_DiffIsExact ==
    d_op = "compute_diff" =>
        LET olds == d_in.old.objects
            news == d_in.new.objects
            both == DOMAIN olds \cap DOMAIN news
        IN  /\ Elements(d_out.added_objects) = DOMAIN news \ DOMAIN olds
            /\ Len(d_out.added_objects) = Cardinality(DOMAIN news \ DOMAIN olds)
            /\ Elements(d_out.removed_objects) = DOMAIN olds \ DOMAIN news
            /\ Len(d_out.removed_objects) = Cardinality(DOMAIN olds \ DOMAIN news)
            /\ \A c \in Elements(d_out.field_changes) :
                 /\ c.object_label \in both
                 /\ c.new_value = news[c.object_label].fields[c.field_name]
            /\ \A l \in both :
                 \A f \in DOMAIN olds[l].fields \cap DOMAIN news[l].fields :
                    (olds[l].fields[f] # news[l].fields[f])
                      <=> [object_label |-> l, field_name |-> f,
                           old_value |-> olds[l].fields[f],
                           new_value |-> news[l].fields[f]]
                             \in Elements(d_out.field_changes)
            /\ olds = news =>
                 /\ d_out.added_objects = <<>> /\ d_out.removed_objects = <<>>
                 /\ d_out.field_changes = <<>>

(***************************************************************************)
(* C28: the binary format round-trips                                      *)
(***************************************************************************)
\* What a written change is expected to decode to: label, field and tag, with the delta new - old for an integer and the raw new
\* value for a float or a double.
ExpectedChange(c) ==
    [object_label |-> c.object_label, field_name |-> c.field_name,
     type |-> c.new_value.type,
     data |-> IF is_integer_type(c.new_value.type)
                THEN c.new_value.data - c.old_value.data
                ELSE c.new_value.data]
DecodedChange(c) ==
    [object_label |-> c.object_label, field_name |-> c.field_name,
     type |-> c.new_value.type, data |-> c.new_value.data]

\* C28: diffs D1..Dn written with write_header, write_diff (each with the
\* timestamp of the one before, 0 first) and write_end decode, from the
\* accumulator 0, to exactly n diffs in the same order, each with the
\* timestamp, the new sequence number, the added and the removed labels of
\* the one written, and with its changes: label, field, tag, and the delta
\* new - old of an integer or the raw new value of a float.
C28_BinaryRoundTrip ==
    d_op = "write_and_decode" =>
        /\ d_out.defined /\ d_out.exit = 0
        /\ Len(d_out.diffs) = Len(d_in)
        /\ \A i \in 1..Len(d_in) :
             /\ d_out.diffs[i].timestamp_ns = d_in[i].timestamp_ns
             /\ d_out.diffs[i].new_sequence = d_in[i].new_sequence
             /\ d_out.diffs[i].added_objects = d_in[i].added_objects
             /\ d_out.diffs[i].removed_objects = d_in[i].removed_objects
             /\ Len(d_out.diffs[i].field_changes) = Len(d_in[i].field_changes)
             /\ \A j \in 1..Len(d_in[i].field_changes) :
                  DecodedChange(d_out.diffs[i].field_changes[j])
                    = ExpectedChange(d_in[i].field_changes[j])

(***************************************************************************)
(* C29: varints round-trip                                                 *)
(***************************************************************************)
\* C29: read_varint returns the 64-bit value write_varint wrote and
\* read_varint_signed the value write_varint_signed wrote (negative numbers,
\* the minimum and the maximum included), and each read stops right after
\* the bytes its write produced, whatever follows them.
C29_VarintRoundTrip ==
    d_op \in {"write_varint", "write_varint_signed"} =>
        /\ d_out.read.defined
        /\ d_out.read.value = d_in.v
        /\ d_out.read.pos = Len(d_out.bytes) + 1

\* The minimum int64_t went through ten bytes, with more bytes after them.
C29_MinimumSigned ==
    /\ d_op = "write_varint_signed"
    /\ d_in.v = {U64Bits - 1}
    /\ Len(d_out.bytes) = 10
    /\ d_in.rest = <<255>>

(***************************************************************************)
(* C30: what decoding a damaged file reports                               *)
(***************************************************************************)
\* C30: decode_binary_file exits with code 1 when the magic is wrong, the
\* version is not supported, the record is truncated or the record's tag is
\* neither 0 nor 1, and with code 0 when the file is as it was written.
C30_DamageIsReported ==
    d_op = "decode" =>
        d_out.exit = (IF d_in.damage.kind = "none" THEN 0 ELSE 1)

(***************************************************************************)
(* C31: the chain of regions while regions are created                     *)
(***************************************************************************)
\* The walk from region_id along next_region_id: the ids visited, and whether
\* the walk ended at 0 (rather than at a region seen before or at a segment
\* that does not exist).
RECURSIVE ChainWalk(_, _)
ChainWalk(region_id, walked) ==
    IF region_id = 0 THEN [regions |-> walked, ended |-> TRUE]
    ELSE IF region_id \in Elements(walked) \/ region_id \notin DOMAIN region_shm
      THEN [regions |-> walked, ended |-> FALSE]
    ELSE ChainWalk(region_shm[region_id].next_region_id, Append(walked, region_id))
HeaderChain == ChainWalk(header.first_region_id, <<>>)

\* The segments created so far in the order of their creation: ids are
\* handed out by next_region_id_++, so this is the ascending order.
RECURSIVE Ascending(_)
Ascending(S) ==
    IF S = {} THEN <<>>
    ELSE LET m == CHOOSE x \in S : \A y \in S : x <= y
         IN  <<m>> \o Ascending(S \ {m})
CreationOrder == Ascending(DOMAIN region_shm)

IsPrefix(s, t) == Len(s) <= Len(t) /\ s = SubSeq(t, 1, Len(s))

\* A descriptor that create_region has written: none of magic, region_id,
\* size and used is the zero of a fresh segment.
DescriptorInitialized(id) ==
    LET d == region_shm[id]
    IN  /\ d.magic = REGION_MAGIC
        /\ d.region_id = id
        /\ ~ULess(d.size, SizeofRegionDescriptor)
        /\ ~ULess(d.used, SizeofRegionDescriptor)

\* C31: at every instant the walk from header.first_region_id along
\* next_region_id ends at 0 without a cycle, visits the created regions in
\* the order of their creation (a prefix of it: the newest region may not be
\* linked yet), every region it visits carries a fully written descriptor,
\* and the regions a connected observer has mapped are the first ones of
\* that walk.
C31_ChainIsInitializedPrefix ==
    header_shm =>
        /\ HeaderChain.ended
        /\ IsPrefix(HeaderChain.regions, CreationOrder)
        /\ \A i \in 1..Len(HeaderChain.regions) :
               DescriptorInitialized(HeaderChain.regions[i])
        /\ connected_ =>
               \E n \in 0..Len(HeaderChain.regions) :
                   region_shms_ = Elements(SubSeq(HeaderChain.regions, 1, n))

\* A second segment exists and is not linked yet while the observer has
\* mapped the first region ...
C31_CreatedNotLinked ==
    /\ connected_ /\ region_shms_ = {1}
    /\ p_pc = "alloc_desc"
    /\ Len(CreationOrder) = 2 /\ HeaderChain.regions = <<1>>
\* ... and afterwards both regions are linked and mapped.
C31_TwoRegionsMapped ==
    /\ connected_ /\ region_shms_ = {1, 2}
    /\ HeaderChain.regions = <<1, 2>>

(***************************************************************************)
(* C32: the directory slots below object_count                             *)
(***************************************************************************)
\* Slot i holds everything register_object writes: a state other than Free,
\* the type id, the location and the label of an object.
SlotComplete(i) ==
    /\ entries[i].state \in {Alive, Destroyed}
    /\ entries[i].type_id # 0
    /\ entries[i].region_id \in DOMAIN region_shm
    /\ entries[i].generation = 1
    /\ entries[i].label \in Labels

\* The slots an observer scans after it has read object_count.
PublishedSlots == {i \in DOMAIN entries : i < header.object_count}

\* The identity of slot i stays what it is.
SlotKept(i) ==
    /\ entries'[i].type_id = entries[i].type_id
    /\ entries'[i].region_id = entries[i].region_id
    /\ entries'[i].offset = entries[i].offset
    /\ entries'[i].label = entries[i].label

\* C32: whenever object_count is n, the slots 0..n-1 are completely written
\* (state Alive or Destroyed, never Free) and no register_object is writing
\* one of them; their type_id, region_id, offset and label never change
\* afterwards; and every object that objects() or find() returns is built
\* from such a slot and carries the slot's values.
C32_PublishedSlotsAreWritten ==
    /\ [](header_shm =>
            /\ \A i \in PublishedSlots : SlotComplete(i)
            /\ p_pc \in {"reg_fields", "reg_count"} => p.slot \notin PublishedSlots
            /\ o_ret.op = "objects" =>
                  \A n \in 1..Len(o_ret.list) :
                      LET obj == o_ret.list[n]
                      IN  /\ obj.slot \in PublishedSlots
                          /\ obj.state = Alive
                          /\ obj.type_id = entries[obj.slot].type_id
                          /\ obj.region_id = entries[obj.slot].region_id
                          /\ obj.offset = entries[obj.slot].offset
                          /\ obj.label = entries[obj.slot].label
            /\ (o_ret.op = "find" /\ o_ret.slot >= 0) =>
                  /\ o_ret.slot \in PublishedSlots
                  /\ o_ret.label = entries[o_ret.slot].label
                  /\ o_ret.region_id = entries[o_ret.slot].region_id
                  /\ o_ret.offset = entries[o_ret.slot].offset)
    /\ [][\A i \in PublishedSlots : SlotKept(i)]_vars

\* objects() has returned the first object while register_object has made
\* the second slot Alive and is still writing its members.
C32_ScanDuringRegistration ==
    /\ o_ret.op = "objects" /\ Len(o_ret.list) = 1
    /\ p_pc = "reg_fields" /\ p.slot = 1
    /\ entries[1].state = Alive /\ entries[1].label = ""

(***************************************************************************)
(* C33: growing by one region                                              *)
(***************************************************************************)
\* This step is an allocate that finds no room in the current region and
\* gets a new segment.
AllocateGrows == p_pc = "idle" /\ p_pc' = "alloc_desc"

\* The payload size of region r: its size without the descriptor.
PayloadSize(r) == region_shm[r].size - SizeofRegionDescriptor

C34_DecodedTimestamps ==
    d_op = "run_diff" =>
        /\ d_out.defined
        /\ Len(d_out.diffs) = Len(d_in.written)
        /\ \A i \in 1..Len(d_in.written) :
               d_out.diffs[i].timestamp_ns = d_in.written[i].timestamp_ns

(***************************************************************************)
(* C35: the decoder stops                                                  *)
(***************************************************************************)
\* C35: decode_binary_file returns for every finite input, whole or cut
\* short anywhere (inside a varint, a string or a raw value): its record
\* loop stops at the first tag 0 or at the end of the input.
C35_DecoderReturns ==
    d_op = "decode" => (d_out.defined /\ d_out.exit \in {0, 1})

(***************************************************************************)
(* C36: progress of Guarded<T>                                             *)
(***************************************************************************)
\* The reader is inside a call.
Reading(r) == r_pc[r] \in {"load1", "copy", "load2"}

\* Every call of read() or try_read() in progress returns (the writer
\* finishes its write and, having MaxWrites writes to make, stops writing).
C36_ReadsReturn == \A r \in Readers : Reading(r) ~> (r_pc[r] = "done")

\* How far a try_read is from returning: its loads and the words to copy.
TryReadStepsLeft(pc, left) ==
    CASE pc = "load1" -> Cardinality(Words) + 2
      [] pc = "copy" -> Cardinality(left) + 1
      [] pc = "load2" -> 1
      [] OTHER -> 0

\* A try_read in progress can always take its next step, whatever the
\* writer does, and each of its steps brings it nearer to its return.
C36_TryReadBounded ==
    /\ [](\A r \in Readers :
            (Reading(r) /\ r_kind[r] = "try_read") => ENABLED <<ReaderStep(r)>>_vars)
    /\ [][\A r \in Readers :
            (Reading(r) /\ r_kind[r] = "try_read" /\ <<ReaderStep(r)>>_vars) =>
                TryReadStepsLeft(r_pc'[r], r_left'[r])
                  < TryReadStepsLeft(r_pc[r], r_left[r])]_vars

\* A write is in progress: the writer's store of s + 1 has been performed
\* and its store of s + 2 has not.
WriteInProgress == w_pc = "stores" /\ "seq" \notin w_pending

C40_LockedCallsComplete ==
    /\ \A t \in Threads : (t_op[t] # "idle") ~> (t_op[t] = "idle")
    /\ []((\A t \in Threads : t_op[t] = "idle") => ~lock_)

\* All the calls have been made; a thread spins on the flag that another
\* thread holds.
C40_LastCallWaits ==
    /\ l_calls = MaxCalls
    /\ \E t, u \in Threads :
          /\ InCriticalSection(t)
          /\ t_op[u] = "update" /\ t_step[u] = 0

(***************************************************************************)
(* C37: the types of the Alive objects                                     *)
(***************************************************************************)
\* The type ids of the header's type table.
PublishedTypeIds == {type_entries[k].type_id : k \in 1..header.type_count}

\* C37: whatever the order of init, register_type and create, the type_id of
\* every Alive directory entry is the id of an entry of the header's type
\* table (so an observer that has loaded the table resolves the object's
\* type), also when the type was registered after init.
C37_AliveTypesPublished ==
    header_shm =>
        \A i \in PublishedSlots :
            entries[i].state = Alive => entries[i].type_id \in PublishedTypeIds

(***************************************************************************)
(* C38: the field ranges of the published types                            *)
(***************************************************************************)
\* The index in the field pool of the first field entry of type entry te.
FieldStart(te) == (te.fields_offset - header.field_entries_offset) \div SizeofFieldEntry

\* The field counts of the type entries 1..k, added up.
RECURSIVE FieldCountSum(_)
FieldCountSum(k) == IF k = 0 THEN 0 ELSE type_entries[k].field_count + FieldCountSum(k - 1)

\* C38: once the schema is published, the field range of every type entry
\* lies within the written part of the field pool (below header.field_count
\* and below field_entries_capacity), which is where load_types reads the
\* type's fields, and the field counts of the entries add up to
\* header.field_count.
C38_FieldRangesInPool ==
    header_shm =>
        /\ \A k \in 1..header.type_count :
               /\ FieldStart(type_entries[k]) >= 0
               /\ FieldStart(type_entries[k]) + type_entries[k].field_count
                     <= header.field_count
               /\ FieldStart(type_entries[k]) + type_entries[k].field_count
                     <= header.field_entries_capacity
        /\ FieldCountSum(header.type_count) = header.field_count
        /\ header.field_count = Len(field_entries)

(***************************************************************************)
(* C39: a view kept across a refresh                                       *)
(***************************************************************************)
\* C39: a field lookup through an ObjectView obtained before a refresh()
\* gives, after any later refresh() of the connected observer, the same
\* result as a lookup through a view of the same object obtained now: the
\* type and field metadata the view refers to is not invalidated or
\* replaced by the refresh.
C39_OldViewAsFresh ==
    (held_out.op = "find_field" /\ held.valid /\ held.type_index # 0) =>
        /\ ~held_out.dangling
        /\ held_out.old = held_out.fresh
====
